---- MODULE Spec2Model ----
(***************************************************************************)
(* A model of anagma's plexer (metadata/plexer.rs), path sorter            *)
(* (config/sorter/mod.rs) and descendant aggregator                        *)
(* (metadata/aggregator.rs).                                               *)
(***************************************************************************)
EXTENDS Integers, Sequences, FiniteSets, TLC

\* ------------------------------------------------------------------ bounds

\* Longest path iterator handed to Plexer::new.
MaxPaths == 3
\* Most blocks in a Seq schema.
MaxBlocks == 2
\* Calls of Plexer::next made after the plexer has nothing left.
ExtraCalls == 2

\* ------------------------------------------------------------ value domains

\* Metadata blocks are opaque values.
Blocks == {"B1", "B2"}

\* File names, with their byte-wise rank; NoName is a path without a usable
\* file name (such as "/" or "..").
NoName == "?"
NameRank ==
    [a |-> 1, b |-> 2, c |-> 3]
    @@ ("item.flac" :> 4 @@ "music.flac" :> 5 @@ "music.mp3" :> 6 @@ "self.flac" :> 7)
Names == {"a", "b", "c"}

\* Item paths: a directory, a file name and a modification time.  Two paths
\* share the file name "a", two share the modification time.
Paths ==
    { [dir |-> "x", name |-> "a", mtime |-> 2],
      [dir |-> "y", name |-> "a", mtime |-> 1],
      [dir |-> "x", name |-> "b", mtime |-> 1],
      [dir |-> "x", name |-> NoName, mtime |-> 3] }

\* What a path iterator's next() returns: Some(Ok(path)), Some(Err(e)) or
\* None.  An iterator is the sequence of its answers; once the sequence is
\* used up it answers None for ever.  A "none" inside the sequence is an
\* iterator that is not fused: it answers None and later Some again.
OkItem(p) == [t |-> "ok", p |-> p]
ErrItem(e) == [t |-> "err", e |-> e]
NoneItem == [t |-> "none"]
IoErrors == {"e1"}
Items == {OkItem(p) : p \in Paths} \cup {ErrItem(e) : e \in IoErrors} \cup {NoneItem}

SeqsUpTo(S, n) == UNION { [1..k -> S] : k \in 0..n }

\* Iterator::next on a sequence of answers.
IterNext(it) ==
    IF it = <<>> THEN [item |-> NoneItem, rest |-> <<>>]
    ELSE [item |-> Head(it), rest |-> Tail(it)]

\* The items Iterator::collect gathers: those before the first None.
RECURSIVE Collect(_)
Collect(it) ==
    IF it = <<>> \/ Head(it) = NoneItem THEN <<>>
    ELSE <<Head(it)>> \o Collect(Tail(it))

\* ------------------------------------------------------------------ sorter

SortOrders == {"Ascending", "Descending"}
SortBys == {"Name", "ModTime"}
Sorters == [sort_by : SortBys, sort_order : SortOrders]

\* Ordering as an integer: Less -1, Equal 0, Greater 1.
CmpInt(a, b) == IF a < b THEN -1 ELSE IF a > b THEN 1 ELSE 0

\* Rank of Path::file_name(): None sorts before every Some(name).
FileNameRank(p) == IF p.name = NoName THEN 0 ELSE NameRank[p.name]

\* SortBy::cmp_paths: by file name, or by modification time.
SortByCmpPaths(sort_by, a, b) ==
    IF sort_by = "Name" THEN CmpInt(FileNameRank(a), FileNameRank(b))
    ELSE CmpInt(a.mtime, b.mtime)

\* An align that forgets the sort order.
align_ascending_only(sorter, asc_ord) == asc_ord

\* Sorter::align
align(sorter, asc_ord) ==
    IF sorter.sort_order = "Ascending" THEN asc_ord ELSE 0 - asc_ord

\* Sorter::cmp_paths
cmp_paths(sorter, a, b) == align(sorter, SortByCmpPaths(sorter.sort_by, a, b))

\* An insertion that puts x before the elements it compares Equal to.
PathInsertBeforeEquals(sorter, s, x) ==
    LET before == { i \in 1..Len(s) : cmp_paths(sorter, s[i], x) < 0 }
        k == Cardinality(before)
    IN  IF \A i \in 1..Len(s) : (i <= k) = (i \in before)
        THEN SubSeq(s, 1, k) \o <<x>> \o SubSeq(s, k + 1, Len(s))
        ELSE Append(s, x)

\* Stable insertion of the path x into the sorted sequence s.
RECURSIVE PathInsert(_, _, _)
PathInsert(sorter, s, x) ==
    IF s = <<>> THEN <<x>>
    ELSE IF cmp_paths(sorter, s[Len(s)], x) <= 0 THEN Append(s, x)
    ELSE Append(PathInsert(sorter, SubSeq(s, 1, Len(s) - 1), x), s[Len(s)])

\* Sorter::sort_paths: slice::sort_by with cmp_paths, a stable sort.
RECURSIVE sort_paths(_, _)
sort_paths(sorter, paths) ==
    IF paths = <<>> THEN <<>>
    ELSE PathInsert(sorter, sort_paths(sorter, SubSeq(paths, 1, Len(paths) - 1)),
                    paths[Len(paths)])

\* The comparator closure of Sorter::sort_path_results: errors sort to the
\* front.
CmpPathResults(sorter, ra, rb) ==
    CASE ra.t = "ok" /\ rb.t = "ok" -> cmp_paths(sorter, ra.p, rb.p)
      [] ra.t = "err" /\ rb.t = "ok" -> -1
      [] ra.t = "ok" /\ rb.t = "err" -> 1
      [] OTHER -> 0

\* Stable insertion of x into the sorted sequence s: after every element
\* that does not compare Greater than x.
RECURSIVE InsertStable(_, _, _)
InsertStable(sorter, s, x) ==
    IF s = <<>> THEN <<x>>
    ELSE IF CmpPathResults(sorter, s[Len(s)], x) <= 0 THEN Append(s, x)
    ELSE Append(InsertStable(sorter, SubSeq(s, 1, Len(s) - 1), x), s[Len(s)])

\* Sorter::sort_path_results: slice::sort_by, a stable sort.
RECURSIVE sort_path_results(_, _)
sort_path_results(sorter, res_paths) ==
    IF res_paths = <<>> THEN <<>>
    ELSE InsertStable(sorter,
                      sort_path_results(sorter, SubSeq(res_paths, 1, Len(res_paths) - 1)),
                      res_paths[Len(res_paths)])

\* ----------------------------------------------------------------- schemas

\* A Map schema is an insertion-ordered mapping (IndexMap): a sequence of
\* entries with distinct keys.
MapEntries == [key : Names, block : Blocks]
DistinctKeys(m) == \A i, j \in 1..Len(m) : m[i].key = m[j].key => i = j
BlockMappings == { m \in SeqsUpTo(MapEntries, Cardinality(Names)) : DistinctKeys(m) }

Schemas ==
    { [kind |-> "One", block |-> b] : b \in Blocks }
    \cup { [kind |-> "Seq", blocks |-> s] : s \in SeqsUpTo(Blocks, MaxBlocks) }
    \cup { [kind |-> "Map", mapping |-> m] : m \in BlockMappings }

\* The blocks of a schema, as the sequence the plexer holds.
SchemaBlocks(schema) ==
    CASE schema.kind = "One" -> <<schema.block>>
      [] schema.kind = "Seq" -> schema.blocks
      [] schema.kind = "Map" -> schema.mapping

\* ------------------------------------------------------------------ plexer

\* Plexer outputs.
OkPair(p, b) == [t |-> "Ok", path |-> p, block |-> b]
Io(e) == [t |-> "Io", e |-> e]
UnusedItemPath(p) == [t |-> "UnusedItemPath", path |-> p]
UnusedBlock(b) == [t |-> "UnusedBlock", block |-> b]
UnusedTaggedBlock(b, tag) == [t |-> "UnusedTaggedBlock", block |-> b, tag |-> tag]
NamelessItemPath(p) == [t |-> "NamelessItemPath", path |-> p]
None == [t |-> "None"]

VARIABLES
    schema,      \* the Schema handed to Plexer::new
    items,       \* the path iterator handed to Plexer::new
    sorter,      \* the Sorter handed to Plexer::new
    mode,        \* the Plexer variant: "One", "Seq" or "Map"
    blocks,      \* opt_block (at most one block), block_iter or block_mapping
    path_iter,   \* path_iter or sorted_path_iter: the answers still to come
    outputs      \* what Plexer::next has returned so far, None included

plexvars == <<schema, items, sorter, mode, blocks, path_iter, outputs>>

VARIABLES
    nnodes,      \* the number of paths in the tree under the item (the item is 1)
    parent,      \* the parent directory of each path but the item
    kind,        \* what processing and listing each path gives (see NodeKinds)
    sort_order,  \* the sort_order handed to resolve_field_children
    agg_method,  \* the AggMethod handed to resolve_field_children
    frontier,    \* the generator's VecDeque of paths
    gen,         \* where the generator stands: "start", "loop" or "done"
    yielded,     \* what the generator has yielded so far
    events,      \* the paths processed ("resolve") and listed ("list"), in order
    result       \* what resolve_field_children returns, once it has

aggvars == <<nnodes, parent, kind, sort_order, agg_method, frontier, gen,
             yielded, events, result>>

VARIABLES
    config,      \* the selection part of the configuration text
    selection,   \* the Selection deserialized from it
    fs,          \* what std::fs::metadata says of each entry of the directory
    dir_order,   \* the order in which read_dir gives the entries, or Unreadable
    prev_match,  \* the pattern match call before the last one
    last_call    \* the last call on the Selection, with what it returned

selvars == <<config, selection, fs, dir_order, prev_match, last_call>>

VARIABLES
    path_vec,    \* the slice of paths handed to Sorter::sort_paths
    vec_before,  \* what path_vec was before the last sort_paths
    sort_call,   \* the last sort_paths call, with its Sorter
    prev_cmp,    \* the cmp_paths call before the last one
    last_cmp     \* the last cmp_paths call, with what it returned

sortvars == <<path_vec, vec_before, sort_call, prev_cmp, last_cmp>>

VARIABLES
    stream,      \* the items of the value stream an operator is applied to
    stream_call, \* the last operator applied to the stream, with what it returned
    seq_call     \* the last operator applied to the sequence of the stream's values

opsvars == <<stream, stream_call, seq_call>>

VARIABLES
    stack,       \* the operand stack, its top last
    ops_done     \* the operators processed on it, each with the stack before and after

stackvars == <<stack, ops_done>>

VARIABLES
    kp_val,      \* the value a key path is resolved on
    kp_path,     \* the key path
    kp_get,      \* what get_key_path has returned for them
    kp_resolve   \* what resolve_key_path has returned for them

keyvars == <<kp_val, kp_path, kp_get, kp_resolve>>

VARIABLES
    levels,      \* the sidecar of each ancestor level of the item, root first
    proc_call    \* the last call of an entry point on the item, with its outcome

procvars == <<levels, proc_call>>

VARIABLES
    ad_kind,     \* which adaptor of producers.rs is iterated
    ad_in,       \* the items its upstream iterator gives, in order
    ad_up,       \* the items the upstream iterator has not given yet
    ad_st,       \* the adaptor's own field: queue, last value or history
    ad_out       \* what each call of next has returned so far

advars == <<ad_kind, ad_in, ad_up, ad_st, ad_out>>

VARIABLES
    arg_in,      \* the Arg a conversion is applied to
    arg_call     \* the last conversion of arg_in, with what it returned

argvars == <<arg_in, arg_call>>

VARIABLES
    opnd_in,     \* the Operand converted to an IterableLike
    opnd_call    \* the last conversion of opnd_in, with what it returned

opndvars == <<opnd_in, opnd_call>>

vars == <<plexvars, aggvars, selvars, sortvars, opsvars, stackvars, keyvars,
          procvars, advars, argvars, opndvars>>

NoCall == [fn |-> "none"]

\* No operator is processed on a stack.
StackIdle == stack = <<>> /\ ops_done = <<>>

\* No key path is resolved.
KeyIdle ==
    /\ kp_val = <<>> /\ kp_path = <<>> /\ kp_get = NoCall /\ kp_resolve = NoCall

\* No item is processed.
ProcIdle == levels = <<>> /\ proc_call = NoCall

\* No adaptor is iterated.
AdIdle ==
    /\ ad_kind = "none" /\ ad_in = <<>> /\ ad_up = <<>> /\ ad_st = <<>>
    /\ ad_out = <<>>

\* No Arg is converted.
ArgIdle == arg_in = NoCall /\ arg_call = NoCall

\* No Operand is converted.
OpndIdle == opnd_in = NoCall /\ opnd_call = NoCall

\* No operator is applied.
OpsIdle == stream = <<>> /\ stream_call = NoCall /\ seq_call = NoCall

\* No Sorter is in use.
SortIdle ==
    /\ path_vec = <<>> /\ vec_before = <<>> /\ sort_call = NoCall
    /\ prev_cmp = NoCall /\ last_cmp = NoCall

\* No selection is in use.
SelIdle ==
    /\ config = <<>> /\ selection = <<>> /\ fs = <<>> /\ dir_order = <<>>
    /\ prev_match = NoCall /\ last_call = NoCall

\* No aggregation is under way.
AggIdle ==
    /\ nnodes = 0 /\ parent = <<>> /\ kind = <<>>
    /\ sort_order = "Name" /\ agg_method = "First"
    /\ frontier = <<>> /\ gen = "done" /\ yielded = <<>> /\ events = <<>>
    /\ result = [t |-> "Pending"]

\* No plexer is at work.
PlexIdle ==
    /\ schema = [kind |-> "Seq", blocks |-> <<>>] /\ items = <<>>
    /\ sorter = [sort_by |-> "Name", sort_order |-> "Ascending"]
    /\ mode = "Seq" /\ blocks = <<>> /\ path_iter = <<>> /\ outputs = <<>>

\* Plexer::new without the sort of the Seq arm (the arm's TODO).
PlexerNewUnsorted(sch, file_path_iter, srt) ==
    CASE sch.kind = "One" ->
            [mode |-> "One", blocks |-> <<sch.block>>, path_iter |-> file_path_iter]
      [] sch.kind = "Seq" ->
            [mode |-> "Seq", blocks |-> sch.blocks, path_iter |-> Collect(file_path_iter)]
      [] sch.kind = "Map" ->
            [mode |-> "Map", blocks |-> sch.mapping, path_iter |-> file_path_iter]

\* Plexer::new
PlexerNew(sch, file_path_iter, srt) ==
    CASE sch.kind = "One" ->
            [mode |-> "One", blocks |-> <<sch.block>>, path_iter |-> file_path_iter]
      [] sch.kind = "Seq" ->
            [mode |-> "Seq", blocks |-> sch.blocks,
             path_iter |-> sort_path_results(srt, Collect(file_path_iter))]
      [] sch.kind = "Map" ->
            [mode |-> "Map", blocks |-> sch.mapping, path_iter |-> file_path_iter]

\* IndexMap::get_index_of: the position of key in the mapping, 0 if absent.
IndexOfKey(m, key) ==
    IF \E i \in 1..Len(m) : m[i].key = key
    THEN CHOOSE i \in 1..Len(m) : m[i].key = key
    ELSE 0

\* A lookup that leaves the entry in the mapping (IndexMap::get).
swap_remove_keeps(m, key) ==
    LET i == IndexOfKey(m, key)
    IN  IF i = 0 THEN [found |-> FALSE, mapping |-> m]
        ELSE [found |-> TRUE, block |-> m[i].block, mapping |-> m]

\* IndexMap::swap_remove: the entry is removed and the last entry takes its
\* place.
swap_remove(m, key) ==
    LET i == IndexOfKey(m, key)
        n == Len(m)
    IN  IF i = 0 THEN [found |-> FALSE, mapping |-> m]
        ELSE [found |-> TRUE, block |-> m[i].block,
              mapping |-> [j \in 1..(n - 1) |-> IF j = i THEN m[n] ELSE m[j]]]

\* Removal of the first entry (IndexMap::shift_remove_index(0)).
pop_first(m) ==
    IF m = <<>> THEN [found |-> FALSE, mapping |-> m]
    ELSE [found |-> TRUE, entry |-> m[1], mapping |-> Tail(m)]

\* IndexMap::pop: the last entry is removed.
pop(m) ==
    IF m = <<>> THEN [found |-> FALSE, mapping |-> m]
    ELSE [found |-> TRUE, entry |-> m[Len(m)], mapping |-> SubSeq(m, 1, Len(m) - 1)]

\* The One arm reading opt_block without taking it.
OneNextKeepsBlock(opt_block, it) ==
    LET nx == IterNext(it)
        out == CASE nx.item.t = "err" -> Io(nx.item.e)
                 [] nx.item.t = "none" /\ opt_block = <<>> -> None
                 [] nx.item.t = "ok" /\ opt_block # <<>> -> OkPair(nx.item.p, opt_block[1])
                 [] nx.item.t = "ok" /\ opt_block = <<>> -> UnusedItemPath(nx.item.p)
                 [] nx.item.t = "none" /\ opt_block # <<>> -> UnusedBlock(opt_block[1])
    IN  [out |-> out,
         blocks |-> IF nx.item.t = "none" THEN <<>> ELSE opt_block,
         path_iter |-> nx.rest]

\* Plexer::next, One arm.  opt_block.take() and path_iter.next() are both
\* evaluated before the match: the block is taken in every case.
OneNext(opt_block, it) ==
    LET nx == IterNext(it)
        out == CASE nx.item.t = "err" -> Io(nx.item.e)
                 [] nx.item.t = "none" /\ opt_block = <<>> -> None
                 [] nx.item.t = "ok" /\ opt_block # <<>> -> OkPair(nx.item.p, opt_block[1])
                 [] nx.item.t = "ok" /\ opt_block = <<>> -> UnusedItemPath(nx.item.p)
                 [] nx.item.t = "none" /\ opt_block # <<>> -> UnusedBlock(opt_block[1])
    IN  [out |-> out, blocks |-> <<>>, path_iter |-> nx.rest]

\* Plexer::next, Seq arm.  block_iter.next() and sorted_path_iter.next() are
\* both evaluated before the match.
SeqNext(block_iter, it) ==
    LET nx == IterNext(it)
        bl == IF block_iter = <<>> THEN <<>> ELSE <<Head(block_iter)>>
        out == CASE nx.item.t = "err" -> Io(nx.item.e)
                 [] nx.item.t = "none" /\ bl = <<>> -> None
                 [] nx.item.t = "ok" /\ bl # <<>> -> OkPair(nx.item.p, bl[1])
                 [] nx.item.t = "ok" /\ bl = <<>> -> UnusedItemPath(nx.item.p)
                 [] nx.item.t = "none" /\ bl # <<>> -> UnusedBlock(bl[1])
    IN  [out |-> out,
         blocks |-> IF block_iter = <<>> THEN <<>> ELSE Tail(block_iter),
         path_iter |-> nx.rest]

\* Plexer::next, Map arm.
MapNext(block_mapping, it) ==
    LET nx == IterNext(it)
    IN  CASE nx.item.t = "err" ->
                [out |-> Io(nx.item.e), blocks |-> block_mapping, path_iter |-> nx.rest]
          [] nx.item.t = "ok" /\ nx.item.p.name = NoName ->
                [out |-> NamelessItemPath(nx.item.p), blocks |-> block_mapping,
                 path_iter |-> nx.rest]
          [] nx.item.t = "ok" /\ nx.item.p.name # NoName ->
                LET r == swap_remove(block_mapping, nx.item.p.name)
                IN  [out |-> IF r.found THEN OkPair(nx.item.p, r.block)
                             ELSE UnusedItemPath(nx.item.p),
                     blocks |-> r.mapping, path_iter |-> nx.rest]
          [] nx.item.t = "none" ->
                LET r == pop(block_mapping)
                IN  [out |-> IF r.found THEN UnusedTaggedBlock(r.entry.block, r.entry.key)
                             ELSE None,
                     blocks |-> r.mapping, path_iter |-> nx.rest]

\* Plexer::next
PlexerNextOf(m, bs, it) ==
    CASE m = "One" -> OneNext(bs, it)
      [] m = "Seq" -> SeqNext(bs, it)
      [] m = "Map" -> MapNext(bs, it)

\* The state after Plexer::new(schema, items, &sorter), for a schema of one
\* of the given kinds.  The sorter matters to a Seq schema only.
PlexInitOf(kinds) ==
    /\ schema \in { sch \in Schemas : sch.kind \in kinds }
    /\ items \in SeqsUpTo(Items, MaxPaths)
    /\ sorter \in Sorters
    /\ (schema.kind # "Seq" => sorter = [sort_by |-> "Name", sort_order |-> "Ascending"])
    /\ LET pl == PlexerNew(schema, items, sorter)
       IN  /\ mode = pl.mode
           /\ blocks = pl.blocks
           /\ path_iter = pl.path_iter
    /\ outputs = <<>>
    /\ AggIdle /\ SelIdle /\ SortIdle /\ OpsIdle
    /\ StackIdle /\ KeyIdle /\ ProcIdle
    /\ AdIdle /\ ArgIdle /\ OpndIdle

PlexInit == PlexInitOf({"One", "Seq", "Map"})
InitOne == PlexInitOf({"One"})
InitSeq == PlexInitOf({"Seq"})
InitMap == PlexInitOf({"Map"})

\* How many times in a row next() has just returned None.
RECURSIVE TrailingNones(_)
TrailingNones(outs) ==
    IF outs = <<>> \/ outs[Len(outs)] # None THEN 0
    ELSE 1 + TrailingNones(SubSeq(outs, 1, Len(outs) - 1))

\* The caller calls next() while the plexer holds anything, and may go on
\* calling it after it has returned None.
MayCall == ~(path_iter = <<>> /\ blocks = <<>> /\ TrailingNones(outputs) >= ExtraCalls)

Step(r) ==
    /\ blocks' = r.blocks
    /\ path_iter' = r.path_iter
    /\ outputs' = Append(outputs, r.out)
    /\ UNCHANGED <<schema, items, sorter, mode>>
    /\ UNCHANGED <<aggvars, selvars, sortvars, opsvars, stackvars, keyvars, procvars,
                   advars, argvars, opndvars>>

NextOne == mode = "One" /\ MayCall /\ Step(OneNext(blocks, path_iter))
NextSeq == mode = "Seq" /\ MayCall /\ Step(SeqNext(blocks, path_iter))
NextMap == mode = "Map" /\ MayCall /\ Step(MapNext(blocks, path_iter))

PlexNext == NextOne \/ NextSeq \/ NextMap

\* A plexer of any schema kind, and the plexers of one schema kind each.
SpecPlex == PlexInit /\ [][PlexNext]_vars
SpecOne == InitOne /\ [][NextOne]_vars
SpecSeq == InitSeq /\ [][NextSeq]_vars
SpecMap == InitMap /\ [][NextMap]_vars

\* ------------------------------------------------- plexer: derived notions

IsOk(it) == it.t = "ok"
IsErr(it) == it.t = "err"
\* The path iterator yields only Ok items and ends with its first None.
OnlyOkItems == \A i \in 1..Len(items) : IsOk(items[i])
\* The path iterator is fused: no Some after a None.
FusedItems == \A i \in 1..Len(items) : items[i] # NoneItem
ReturnedNone == \E i \in 1..Len(outputs) : outputs[i] = None
PathsOf(its) == [i \in 1..Len(its) |-> its[i].p]
Min(a, b) == IF a < b THEN a ELSE b
Max(a, b) == IF a > b THEN a ELSE b
Reverse(s) == [i \in 1..Len(s) |-> s[Len(s) + 1 - i]]
CountIn(s, Test(_)) == Len(SelectSeq(s, Test))

\* outputs is a prefix of expected followed by None for ever.
FollowsThenNone(expected) ==
    \A i \in 1..Len(outputs) :
        outputs[i] = IF i <= Len(expected) THEN expected[i] ELSE None

\* The permutations of 1..n, for every length a path iterator can have.
PermsOf ==
    [n \in 0..MaxPaths |->
        { f \in [1..n -> 1..n] : \A i, j \in 1..n : f[i] = f[j] => i = j }]

\* orig taken in the order f is a stable sort of orig under the sorter: no
\* element compares Greater than a later one, and elements that compare
\* Equal keep their order in orig.
IsStableSort(f, orig, srt) ==
    \A i, j \in 1..Len(orig) :
        i < j => LET c == cmp_paths(srt, orig[f[i]], orig[f[j]])
                 IN  c < 0 \/ (c = 0 /\ f[i] < f[j])

\* C1: in Seq mode with k blocks and m Ok paths the outputs are, in order,
\* Ok((p_i, b_i)) for i < min(k, m), p being the paths in the sorter's (stable)
\* order and b the blocks in schema order, then UnusedBlock(b_i) for the
\* remaining blocks (k > m) or UnusedItemPath(p_i) for the remaining paths
\* (m > k), then None.
C1_SeqZipsSortedPaths ==
    (schema.kind = "Seq" /\ OnlyOkItems) =>
        LET k == Len(schema.blocks)
            m == Len(items)
            orig == PathsOf(items)
            expected(f) ==
                [i \in 1..Max(k, m) |->
                    IF i <= Min(k, m) THEN OkPair(orig[f[i]], schema.blocks[i])
                    ELSE IF k > m THEN UnusedBlock(schema.blocks[i])
                    ELSE UnusedItemPath(orig[f[i]])]
        IN  \E f \in PermsOf[m] :
                /\ IsStableSort(f, orig, sorter)
                /\ FollowsThenNone(expected(f))

\* C1 witness: a Seq plexer that has paired paths with blocks in an order the
\* sorter changed, reported an unused path and returned None.
C1_Witness ==
    /\ schema.kind = "Seq" /\ OnlyOkItems /\ ReturnedNone
    /\ Len(schema.blocks) >= 2 /\ Len(items) > Len(schema.blocks)
    /\ outputs[1].t = "Ok" /\ outputs[1].path # items[1].p
    /\ \E i \in 1..Len(outputs) : outputs[i].t = "UnusedItemPath"

\* C2: in One mode with only Ok paths: no path gives the single output
\* UnusedBlock(block); n >= 1 paths give Ok((p_0, block)) and then
\* UnusedItemPath(p_i) for i = 1..n-1 in iterator order; the block is in
\* exactly one output item.
C2_OnePairsFirstPath ==
    (schema.kind = "One" /\ OnlyOkItems) =>
        LET n == Len(items)
            expected ==
                IF n = 0 THEN <<UnusedBlock(schema.block)>>
                ELSE [i \in 1..n |->
                        IF i = 1 THEN OkPair(items[1].p, schema.block)
                        ELSE UnusedItemPath(items[i].p)]
            HasBlock(o) == o.t \in {"Ok", "UnusedBlock"}
        IN  /\ FollowsThenNone(expected)
            /\ CountIn(outputs, HasBlock) <= 1
            /\ ReturnedNone => CountIn(outputs, HasBlock) = 1

\* C2 witness: a One plexer that paired its block with the first of several
\* paths, reported the others and returned None.
C2_Witness ==
    /\ schema.kind = "One" /\ OnlyOkItems /\ ReturnedNone
    /\ Len(items) >= 2
    /\ outputs[1].t = "Ok" /\ outputs[2].t = "UnusedItemPath"

\* An input of Map mode for C3: Ok paths with a usable file name only.
NamedOkItems == \A i \in 1..Len(items) : IsOk(items[i]) /\ items[i].p.name # NoName

\* C3: in Map mode with Ok paths that have a file name: every input path is
\* in exactly one output item (an Ok pair or UnusedItemPath), in the path
\* iterator's order; every schema entry is in exactly one output item (an Ok
\* pair or UnusedTaggedBlock); every Ok((path, block)) carries the block of the
\* schema entry whose key is the path's file name.
C3_MapConservation ==
    (schema.kind = "Map" /\ NamedOkItems) =>
        LET m == schema.mapping
            HasPath(o) == o.t \in {"Ok", "UnusedItemPath"}
            pathOuts == SelectSeq(outputs, HasPath)
            EntryOf(o) ==
                IF o.t = "Ok" THEN [key |-> o.path.name, block |-> o.block]
                ELSE [key |-> o.tag, block |-> o.block]
            HasEntry(o) == o.t \in {"Ok", "UnusedTaggedBlock"}
            entryOuts == SelectSeq(outputs, HasEntry)
        IN  /\ Len(pathOuts) <= Len(items)
            /\ \A i \in 1..Len(pathOuts) : pathOuts[i].path = items[i].p
            /\ \A i \in 1..Len(entryOuts) :
                  \E j \in 1..Len(m) : m[j] = EntryOf(entryOuts[i])
            /\ \A i, j \in 1..Len(entryOuts) :
                  EntryOf(entryOuts[i]).key = EntryOf(entryOuts[j]).key => i = j
            /\ ReturnedNone =>
                  /\ Len(pathOuts) = Len(items)
                  /\ Len(entryOuts) = Len(m)

\* C3 witness: a Map plexer that matched a path, met a second path with the
\* same file name, and returned None with an entry left over.
C3_Witness ==
    /\ schema.kind = "Map" /\ NamedOkItems /\ ReturnedNone
    /\ \E i, j \in 1..Len(outputs) :
          /\ i < j
          /\ outputs[i].t = "Ok" /\ outputs[j].t = "UnusedItemPath"
          /\ outputs[i].path.name = outputs[j].path.name
    /\ \E i \in 1..Len(outputs) : outputs[i].t = "UnusedTaggedBlock"

\* Call i of next() got None from the path iterator (the One and Map arms
\* take one answer of the iterator per call).
IterReturnedNoneAt(i) == i > Len(items) \/ items[i] = NoneItem

\* The mapping after the paths of its have been looked up in order, each hit
\* removed by swap_remove.
RECURSIVE LeftAfter(_, _)
LeftAfter(m, its) ==
    IF its = <<>> THEN m
    ELSE LET h == Head(its)
         IN  LeftAfter(IF IsOk(h) /\ h.p.name # NoName
                       THEN swap_remove(m, h.p.name).mapping ELSE m,
                       Tail(its))

IsUnusedTagged(o) == o.t = "UnusedTaggedBlock"
\* The entries reported as UnusedTaggedBlock so far, in output order.
TaggedOuts ==
    LET outs == SelectSeq(outputs, IsUnusedTagged)
    IN  [i \in 1..Len(outs) |-> [key |-> outs[i].tag, block |-> outs[i].block]]

NoTaggedBeforeIterNone ==
    \A i \in 1..Len(outputs) : IsUnusedTagged(outputs[i]) => IterReturnedNoneAt(i)

\* C4 as claimed: in Map mode no UnusedTaggedBlock comes before the path
\* iterator has returned None, and the entries left are then reported in the
\* mapping's insertion order, restricted to the entries that were not matched.
C4_LeftoversInInsertionOrder ==
    (schema.kind = "Map" /\ FusedItems) =>
        /\ NoTaggedBeforeIterNone
        /\ ReturnedNone =>
              LET Matched(e) == \E i \in 1..Len(outputs) :
                                    outputs[i].t = "Ok" /\ outputs[i].path.name = e.key
                  Unmatched(e) == ~Matched(e)
              IN  TaggedOuts = SelectSeq(schema.mapping, Unmatched)

\* C4 amended: in Map mode no UnusedTaggedBlock comes before the path
\* iterator has returned None; once a fused path iterator has returned None
\* the entries left are reported each once, the last entry of the mapping
\* first: in the reverse of the order the mapping then has, which is the
\* insertion order except that every matched entry's place was taken by the
\* entry that was last at that moment.
C4_LeftoversLastFirst ==
    schema.kind = "Map" =>
        /\ NoTaggedBeforeIterNone
        /\ FusedItems =>
              LET left == Reverse(LeftAfter(schema.mapping, items))
              IN  /\ Len(TaggedOuts) <= Len(left)
                  /\ TaggedOuts = SubSeq(left, 1, Len(TaggedOuts))
                  /\ ReturnedNone => TaggedOuts = left

\* C4 witness: a Map plexer that matched an entry and then, its path iterator
\* over, reported two leftover entries and returned None.
C4_Witness ==
    /\ schema.kind = "Map" /\ FusedItems /\ ReturnedNone
    /\ \E i \in 1..Len(outputs) : outputs[i].t = "Ok"
    /\ Len(TaggedOuts) >= 2

\* The outputs of a plexer run to its first None.
RECURSIVE Drain(_, _, _)
Drain(m, bs, it) ==
    LET r == PlexerNextOf(m, bs, it)
    IN  IF r.out = None THEN <<>>
        ELSE <<r.out>> \o Drain(m, r.blocks, r.path_iter)

\* The outputs so far, to the first None.
RECURSIVE BeforeNone(_)
BeforeNone(outs) ==
    IF outs = <<>> \/ Head(outs) = None THEN <<>>
    ELSE <<Head(outs)>> \o BeforeNone(Tail(outs))

\* C5: in every mode each Err(e) of the path iterator gives exactly one
\* Err(Io(e)) output, and the other outputs are those of the same plexer on
\* the path iterator without its Err items: no block is consumed, dropped or
\* paired otherwise because of a path error.
C5_PathErrorsAreTransparent ==
    (FusedItems /\ ReturnedNone) =>
        LET IsIo(o) == o.t = "Io"
            NotIo(o) == o.t # "Io"
            outs == BeforeNone(outputs)
            errs == SelectSeq(items, IsErr)
            clean == PlexerNew(schema, SelectSeq(items, IsOk), sorter)
        IN  /\ SelectSeq(outs, IsIo) = [i \in 1..Len(errs) |-> Io(errs[i].e)]
            /\ SelectSeq(outs, NotIo) = Drain(clean.mode, clean.blocks, clean.path_iter)

\* C6: the plexer is fused: once next() has returned None, every later call
\* returns None.
C6_NoneIsFinal ==
    \A i, j \in 1..Len(outputs) : (i < j /\ outputs[i] = None) => outputs[j] = None

\* -------------------------------------------------------------- aggregator

\* Most paths in the tree under the item, the item included.
MaxNodes == 4

\* The item handed to resolve_field_children.
ItemPath == 1

\* What the file system and the metadata give for a path:
\*   "val"     its processed block has the field;
\*   "err"     processing its metadata fails;
\*   "none"    its processed block lacks the field; it is a directory that can
\*             be listed if it has entries, a file otherwise;
\*   "nolist"  its processed block lacks the field; it is a directory whose
\*             listing fails;
\*   "hidden"  the selection does not select it.
NodeKinds == {"val", "err", "none", "nolist", "hidden"}
\* The item itself is not subject to the selection, and is never processed.
ItemKinds == {"val", "none", "nolist"}

SortCriteria == {"Name", "ModTime"}
AggMethods == {"First", "Collect"}

\* The directories from n up to the item, n included.
RECURSIVE AncestorsOrSelf(_, _)
AncestorsOrSelf(par, n) ==
    IF n = ItemPath THEN {ItemPath} ELSE {n} \cup AncestorsOrSelf(par, par[n])

\* The trees of n paths, numbered in pre-order by name: the parent of a path
\* is the path numbered before it or one of that path's ancestors.
TreesOf(n) ==
    { par \in [2..n -> 1..n] :
        /\ \A i \in 2..n : par[i] < i
        /\ \A i \in 2..n : par[i] \in AncestorsOrSelf(par, i - 1) }

\* The entries of directory n.
Entries(n) == { c \in 2..nnodes : parent[c] = n }

\* Path::is_dir
is_dir(n) == kind[n] = "nolist" \/ Entries(n) # {}

\* The sort key of a path: its name, or its modification time; the
\* modification times of the tree run against the names.
SortKey(so, n) == IF so = "Name" THEN n ELSE 0 - n

RECURSIVE SortedBy(_, _)
SortedBy(S, so) ==
    IF S = {} THEN <<>>
    ELSE LET m == CHOOSE x \in S : \A y \in S : SortKey(so, x) <= SortKey(so, y)
         IN  <<m>> \o SortedBy(S \ {m}, so)

\* Selection::select_in_dir_sorted: the selected entries of the directory in
\* the sort order, or an error.
select_in_dir_sorted(n, so) ==
    IF kind[n] = "nolist" THEN [ok |-> FALSE]
    ELSE [ok |-> TRUE,
          paths |-> SortedBy({ c \in Entries(n) : kind[c] # "hidden" }, so)]

\* Metadata values: the value of the field at a path, Nil, and a sequence.
FieldVal(n) == [k |-> "Str", of |-> n]
Nil == [k |-> "Nil"]
SeqVal(vs) == [k |-> "Seq", vals |-> vs]

\* MetaAggregator::resolve_field: Err, Ok(Some(value)) or Ok(None).
resolve_field(n) ==
    CASE kind[n] = "err" -> [t |-> "Err"]
      [] kind[n] = "val" -> [t |-> "Some", val |-> FieldVal(n)]
      [] OTHER -> [t |-> "None"]

\* What the generator yields.
YieldOk(v, n) == [t |-> "Ok", val |-> v, path |-> n]
YieldErr(what, n) == [t |-> "Err", err |-> what, path |-> n]

\* A first block that leaves the item itself in the frontier, to be resolved
\* by the loop like any other path.
StartStepKeepsItem(fr) == [frontier |-> fr, yield |-> <<>>, events |-> <<>>]

\* The generator's first block: the start path is popped and listed, its
\* entries are pushed to the back of the frontier.
StartStep(fr) ==
    IF fr = <<>> THEN [frontier |-> fr, yield |-> <<>>, events |-> <<>>]
    ELSE LET start == Head(fr)
             sel == select_in_dir_sorted(start, sort_order)
         IN  IF sel.ok
             THEN [frontier |-> Tail(fr) \o sel.paths, yield |-> <<>>,
                   events |-> << <<"list", start>> >>]
             ELSE [frontier |-> Tail(fr),
                   yield |-> <<YieldErr("CannotSelectPaths", start)>>,
                   events |-> << <<"list", start>> >>]

\* A loop turn that also descends below a path that has the field.
LoopStepDescendsAlways(fr) ==
    LET p == Head(fr)
        r == resolve_field(p)
        sel == select_in_dir_sorted(p, sort_order)
        below == IF is_dir(p) /\ sel.ok THEN sel.paths ELSE <<>>
    IN  CASE r.t = "Err" ->
                [frontier |-> Tail(fr),
                 yield |-> <<YieldErr("CannotProcessMetadata", p)>>,
                 events |-> << <<"resolve", p>> >>]
          [] r.t = "Some" ->
                [frontier |-> below \o Tail(fr), yield |-> <<YieldOk(r.val, p)>>,
                 events |-> << <<"resolve", p>> >>]
          [] r.t = "None" /\ is_dir(p) /\ ~sel.ok ->
                [frontier |-> Tail(fr),
                 yield |-> <<YieldErr("CannotSelectPaths", p)>>,
                 events |-> << <<"resolve", p>>, <<"list", p>> >>]
          [] OTHER ->
                [frontier |-> below \o Tail(fr), yield |-> <<>>,
                 events |-> << <<"resolve", p>> >>]

\* A loop turn that pushes the entries to the back of the frontier: a
\* breadth-first walk.
LoopStepBreadthFirst(fr) ==
    LET p == Head(fr)
        r == resolve_field(p)
        sel == select_in_dir_sorted(p, sort_order)
    IN  CASE r.t = "Err" ->
                [frontier |-> Tail(fr),
                 yield |-> <<YieldErr("CannotProcessMetadata", p)>>,
                 events |-> << <<"resolve", p>> >>]
          [] r.t = "Some" ->
                [frontier |-> Tail(fr), yield |-> <<YieldOk(r.val, p)>>,
                 events |-> << <<"resolve", p>> >>]
          [] r.t = "None" /\ is_dir(p) /\ ~sel.ok ->
                [frontier |-> Tail(fr),
                 yield |-> <<YieldErr("CannotSelectPaths", p)>>,
                 events |-> << <<"resolve", p>>, <<"list", p>> >>]
          [] r.t = "None" /\ is_dir(p) /\ sel.ok ->
                [frontier |-> Tail(fr) \o sel.paths, yield |-> <<>>,
                 events |-> << <<"resolve", p>>, <<"list", p>> >>]
          [] OTHER ->
                [frontier |-> Tail(fr), yield |-> <<>>,
                 events |-> << <<"resolve", p>> >>]

\* A loop turn that gives the walk up at the first error.
LoopStepAbortsOnErr(fr) ==
    LET p == Head(fr)
        r == resolve_field(p)
        sel == select_in_dir_sorted(p, sort_order)
    IN  CASE r.t = "Err" ->
                [frontier |-> <<>>,
                 yield |-> <<YieldErr("CannotProcessMetadata", p)>>,
                 events |-> << <<"resolve", p>> >>]
          [] r.t = "Some" ->
                [frontier |-> Tail(fr), yield |-> <<YieldOk(r.val, p)>>,
                 events |-> << <<"resolve", p>> >>]
          [] r.t = "None" /\ is_dir(p) /\ ~sel.ok ->
                [frontier |-> <<>>,
                 yield |-> <<YieldErr("CannotSelectPaths", p)>>,
                 events |-> << <<"resolve", p>>, <<"list", p>> >>]
          [] r.t = "None" /\ is_dir(p) /\ sel.ok ->
                [frontier |-> sel.paths \o Tail(fr), yield |-> <<>>,
                 events |-> << <<"resolve", p>>, <<"list", p>> >>]
          [] OTHER ->
                [frontier |-> Tail(fr), yield |-> <<>>,
                 events |-> << <<"resolve", p>> >>]

\* A loop turn that also goes below a path whose field could not be resolved.
LoopStepDescendsBelowErr(fr) ==
    LET p == Head(fr)
        r == resolve_field(p)
        sel == select_in_dir_sorted(p, sort_order)
        below == IF is_dir(p) /\ sel.ok THEN sel.paths ELSE <<>>
    IN  CASE r.t = "Err" ->
                [frontier |-> below \o Tail(fr),
                 yield |-> <<YieldErr("CannotProcessMetadata", p)>>,
                 events |-> << <<"resolve", p>> >>]
          [] r.t = "Some" ->
                [frontier |-> Tail(fr), yield |-> <<YieldOk(r.val, p)>>,
                 events |-> << <<"resolve", p>> >>]
          [] r.t = "None" /\ ~is_dir(p) ->
                [frontier |-> Tail(fr), yield |-> <<>>,
                 events |-> << <<"resolve", p>> >>]
          [] r.t = "None" /\ is_dir(p) /\ ~sel.ok ->
                [frontier |-> Tail(fr),
                 yield |-> <<YieldErr("CannotSelectPaths", p)>>,
                 events |-> << <<"resolve", p>>, <<"list", p>> >>]
          [] r.t = "None" /\ is_dir(p) /\ sel.ok ->
                [frontier |-> sel.paths \o Tail(fr), yield |-> <<>>,
                 events |-> << <<"resolve", p>>, <<"list", p>> >>]

\* A loop turn that reads the front path and leaves it in the frontier when
\* it is a file without the field.
LoopStepKeepsLeaf(fr) ==
    LET p == Head(fr)
        r == resolve_field(p)
        sel == select_in_dir_sorted(p, sort_order)
    IN  CASE r.t = "Err" ->
                [frontier |-> Tail(fr),
                 yield |-> <<YieldErr("CannotProcessMetadata", p)>>,
                 events |-> << <<"resolve", p>> >>]
          [] r.t = "Some" ->
                [frontier |-> Tail(fr), yield |-> <<YieldOk(r.val, p)>>,
                 events |-> << <<"resolve", p>> >>]
          [] r.t = "None" /\ ~is_dir(p) ->
                [frontier |-> fr, yield |-> <<>>, events |-> <<>>]
          [] r.t = "None" /\ is_dir(p) /\ ~sel.ok ->
                [frontier |-> Tail(fr),
                 yield |-> <<YieldErr("CannotSelectPaths", p)>>,
                 events |-> << <<"resolve", p>>, <<"list", p>> >>]
          [] r.t = "None" /\ is_dir(p) /\ sel.ok ->
                [frontier |-> sel.paths \o Tail(fr), yield |-> <<>>,
                 events |-> << <<"resolve", p>>, <<"list", p>> >>]

\* One turn of the generator's while loop: the front path is popped and
\* resolved; its entries go to the front of the frontier, in order, only when
\* it lacks the field and is a directory.
LoopStep(fr) ==
    LET p == Head(fr)
        r == resolve_field(p)
        sel == select_in_dir_sorted(p, sort_order)
    IN  CASE r.t = "Err" ->
                [frontier |-> Tail(fr),
                 yield |-> <<YieldErr("CannotProcessMetadata", p)>>,
                 events |-> << <<"resolve", p>> >>]
          [] r.t = "Some" ->
                [frontier |-> Tail(fr), yield |-> <<YieldOk(r.val, p)>>,
                 events |-> << <<"resolve", p>> >>]
          [] r.t = "None" /\ ~is_dir(p) ->
                [frontier |-> Tail(fr), yield |-> <<>>,
                 events |-> << <<"resolve", p>> >>]
          [] r.t = "None" /\ is_dir(p) /\ ~sel.ok ->
                [frontier |-> Tail(fr),
                 yield |-> <<YieldErr("CannotSelectPaths", p)>>,
                 events |-> << <<"resolve", p>>, <<"list", p>> >>]
          [] r.t = "None" /\ is_dir(p) /\ sel.ok ->
                [frontier |-> sel.paths \o Tail(fr), yield |-> <<>>,
                 events |-> << <<"resolve", p>>, <<"list", p>> >>]

Pending == [t |-> "Pending"]
IsYieldOk(y) == y.t = "Ok"
ValuesOf(ys) ==
    LET oks == SelectSeq(ys, IsYieldOk)
    IN  [i \in 1..Len(oks) |-> oks[i].val]

\* A fold that takes no result before the generator is over.
FoldOnYieldDrains(method, ys) == Pending

\* resolve_field_children on a yield: the filter_map drops an Err; with
\* First the first Ok is the result, and the generator is resumed no more.
FoldOnYield(method, ys) ==
    IF method = "First" /\ ys # <<>> /\ ys[1].t = "Ok"
    THEN [t |-> "Ok", val |-> ys[1].val]
    ELSE Pending

\* AggMethod::aggregate over the values of an iterator that has ended.
aggregate(method, mvs) ==
    IF method = "First"
    THEN (IF mvs = <<>> THEN Nil ELSE Head(mvs))
    ELSE SeqVal(mvs)

\* A fold that collects the values last first.
FoldOnEndReversed(method, ys) ==
    IF method = "First" THEN [t |-> "Ok", val |-> Nil]
    ELSE [t |-> "Ok", val |-> SeqVal(Reverse(ValuesOf(ys)))]

\* resolve_field_children when the generator is over.
FoldOnEnd(method, ys) ==
    IF method = "First" THEN [t |-> "Ok", val |-> Nil]
    ELSE [t |-> "Ok", val |-> SeqVal(ValuesOf(ys))]

\* The state when resolve_field_children has built the generator.
AggInitOf(maxn) ==
    /\ nnodes \in 1..maxn
    /\ parent \in TreesOf(nnodes)
    /\ kind \in [1..nnodes -> NodeKinds]
    /\ kind[ItemPath] \in ItemKinds
    /\ sort_order \in SortCriteria
    /\ agg_method \in AggMethods
    /\ frontier = IF is_dir(ItemPath) THEN <<ItemPath>> ELSE <<>>
    /\ gen = "start"
    /\ yielded = <<>>
    /\ events = <<>>
    /\ result = Pending
    /\ PlexIdle /\ SelIdle /\ SortIdle /\ OpsIdle
    /\ StackIdle /\ KeyIdle /\ ProcIdle
    /\ AdIdle /\ ArgIdle /\ OpndIdle

AggInit == AggInitOf(MaxNodes)

Resume(st, nextgen) ==
    /\ frontier' = st.frontier
    /\ yielded' = yielded \o st.yield
    /\ events' = events \o st.events
    /\ gen' = nextgen
    /\ result' = FoldOnYield(agg_method, st.yield)
    /\ UNCHANGED <<nnodes, parent, kind, sort_order, agg_method>>
    /\ UNCHANGED <<plexvars, selvars, sortvars, opsvars, stackvars, keyvars, procvars,
                   advars, argvars, opndvars>>

\* The generator runs its first block.
GenStart ==
    /\ gen = "start" /\ result = Pending
    /\ Resume(StartStep(frontier), "loop")

\* The generator runs one turn of its loop.
GenVisit ==
    /\ gen = "loop" /\ result = Pending /\ frontier # <<>>
    /\ Resume(LoopStep(frontier), "loop")

\* The frontier is empty: the generator is over and the fold returns.
GenFinish ==
    /\ gen = "loop" /\ result = Pending /\ frontier = <<>>
    /\ gen' = "done"
    /\ result' = FoldOnEnd(agg_method, yielded)
    /\ UNCHANGED <<nnodes, parent, kind, sort_order, agg_method, frontier,
                   yielded, events>>
    /\ UNCHANGED <<plexvars, selvars, sortvars, opsvars, stackvars, keyvars, procvars,
                   advars, argvars, opndvars>>

AggNext == GenStart \/ GenVisit \/ GenFinish

SpecAgg == AggInit /\ [][AggNext]_vars

\* The aggregation under its consumer: collect(), and next() under the
\* filter_map, resume the generator again and again, until it is over or,
\* with First, has yielded a pair.
MaxLiveNodes == 3
LiveInit == AggInitOf(MaxLiveNodes)
SpecAggLive == LiveInit /\ [][AggNext]_vars /\ WF_vars(AggNext)

\* ---------------------------------------------- aggregator: derived notions

Nodes == 1..nnodes
OkYields == SelectSeq(yielded, IsYieldOk)
\* d lies strictly below a.
StrictDescendant(d, a) == d # a /\ a \in AncestorsOrSelf(parent, d)
Depth(n) == Cardinality(AncestorsOrSelf(parent, n)) - 1
Returned == result # Pending

\* The selected entries of a directory in the sort order.
SelectedSorted(n) == SortedBy({ c \in Entries(n) : kind[c] # "hidden" }, sort_order)

\* The depth-first pre-order of the tree under n, n first, the entries of
\* every directory in SelectedSorted order.
RECURSIVE PreOrder(_)
RECURSIVE PreOrderAll(_)
PreOrder(n) == <<n>> \o PreOrderAll(SelectedSorted(n))
PreOrderAll(ns) ==
    IF ns = <<>> THEN <<>> ELSE PreOrder(Head(ns)) \o PreOrderAll(Tail(ns))

IndexIn(sq, x) == CHOOSE i \in 1..Len(sq) : sq[i] = x

\* C7: among the pairs the helper yields, no pair's path is a strict
\* descendant of another yielded pair's path.
C7_NoYieldBelowAYield ==
    \A i, j \in 1..Len(OkYields) :
        ~StrictDescendant(OkYields[i].path, OkYields[j].path)

\* C7 witness: a pair was yielded for a directory that has, below it, a
\* selected path whose block has the field too, and the walk is over.
C7_Witness ==
    /\ gen = "done" /\ agg_method = "Collect"
    /\ \E i \in 1..Len(OkYields) : \E d \in Nodes :
          /\ StrictDescendant(d, OkYields[i].path)
          /\ kind[d] = "val"
          /\ parent[d] = OkYields[i].path

\* C8: the pairs come out in depth-first pre-order of the tree under the
\* item, every directory's entries in select_in_dir_sorted order: of two
\* yielded paths the one earlier in the pre-order is yielded first, and what
\* is yielded below an entry comes before what is yielded at or below a later
\* entry of the same directory.
C8_YieldsInPreOrder ==
    LET pre == PreOrder(ItemPath)
    IN  \A i, j \in 1..Len(OkYields) :
            i < j =>
                LET x == OkYields[i].path
                    y == OkYields[j].path
                IN  /\ IndexIn(pre, x) < IndexIn(pre, y)
                    /\ \A d \in Nodes :
                          LET sibs == SelectedSorted(d)
                          IN  \A a, b \in 1..Len(sibs) :
                                  ( /\ sibs[a] \in AncestorsOrSelf(parent, x)
                                    /\ sibs[b] \in AncestorsOrSelf(parent, y) )
                                  => a <= b

\* C8 witness: a path was yielded before a path nearer to the item: the walk
\* went down below an entry before it went on to the next entry.
C8_Witness ==
    /\ gen = "done"
    /\ \E i, j \in 1..Len(OkYields) :
          /\ i < j
          /\ Depth(OkYields[i].path) > Depth(OkYields[j].path)

\* C9 as claimed: when the item's own processed block has the field, the
\* aggregation yields that value for the item's own path and goes into none
\* of the item's entries; with First the result is that value.
C9_ItemWithFieldIsYielded ==
    (kind[ItemPath] = "val" /\ Returned) =>
        /\ \E i \in 1..Len(OkYields) :
              OkYields[i] = YieldOk(FieldVal(ItemPath), ItemPath)
        /\ \A i \in 1..Len(events) : events[i][2] = ItemPath
        /\ agg_method = "First" => result.val = FieldVal(ItemPath)

\* C9 amended: the aggregation never processes the item itself: no pair has
\* the item's own path, whether or not the item's block has the field; when
\* the item is a directory the first thing done is to list its entries, from
\* which the walk starts; with First the result is the value of the first
\* pair yielded below the item, Nil when there is none.
C9_ItemItselfIsNeverResolved ==
    /\ \A i \in 1..Len(yielded) :
          yielded[i].t = "Ok" => StrictDescendant(yielded[i].path, ItemPath)
    /\ \A i \in 1..Len(events) : events[i] # <<"resolve", ItemPath>>
    /\ (gen # "start" /\ is_dir(ItemPath)) =>
          (events # <<>> /\ events[1] = <<"list", ItemPath>>)
    /\ (agg_method = "First" /\ Returned) =>
          result.val = IF OkYields = <<>> THEN Nil ELSE OkYields[1].val

\* C9 witness: the item's block has the field, and First returned the value
\* of a path below the item.
C9_Witness ==
    /\ kind[ItemPath] = "val" /\ agg_method = "First" /\ Returned
    /\ \E n \in Nodes : n # ItemPath /\ result.val = FieldVal(n)

\* The paths the walk has to reach whatever fails elsewhere: selected, below
\* a listable item, every directory between them and the item selected,
\* listable and without the field.
Reachable(n) ==
    /\ n # ItemPath
    /\ kind[ItemPath] # "nolist"
    /\ kind[n] # "hidden"
    /\ \A a \in AncestorsOrSelf(parent, n) \ {n, ItemPath} : kind[a] = "none"

\* C10: an error while a path is processed or a directory is listed does not
\* end the aggregation: resolve_field_children returns Ok, an error leaves
\* the rest of the frontier to be walked, and every value yielded after an
\* error is in the result: with Collect the result holds the value of every
\* reachable path that has the field.
C10_ErrorsDoNotAbort ==
    /\ Returned => result.t = "Ok"
    /\ (gen = "done" /\ agg_method = "Collect") =>
          \A n \in Nodes :
              (Reachable(n) /\ kind[n] = "val") =>
                  \E k \in 1..Len(result.val.vals) : result.val.vals[k] = FieldVal(n)
    /\ Returned =>
          \A i, j \in 1..Len(yielded) :
              (i < j /\ yielded[i].t = "Err" /\ yielded[j].t = "Ok") =>
                  IF agg_method = "Collect"
                  THEN \E k \in 1..Len(result.val.vals) :
                          result.val.vals[k] = yielded[j].val
                  ELSE result.val = yielded[j].val

\* C10 witness: Collect returned after a processing error, a listing error
\* and, later, a yielded value.
C10_Witness ==
    /\ agg_method = "Collect" /\ Returned
    /\ \E i, j, k \in 1..Len(yielded) :
          /\ i < k /\ j < k
          /\ yielded[i].t = "Err" /\ yielded[i].err = "CannotProcessMetadata"
          /\ yielded[j].t = "Err" /\ yielded[j].err = "CannotSelectPaths"
          /\ yielded[k].t = "Ok"

\* C11: First returns the value of the first pair yielded without error, Nil
\* when there is none; Collect returns a Seq of the values of all the pairs
\* yielded without error, in the order of the yields, nothing added, nothing
\* dropped. Both agree with AggMethod::aggregate over those values.
C11_FoldOfTheYields ==
    Returned =>
        /\ result.t = "Ok"
        /\ result.val = aggregate(agg_method, ValuesOf(yielded))
        /\ agg_method = "First" =>
              result.val = IF OkYields = <<>> THEN Nil ELSE OkYields[1].val
        /\ agg_method = "Collect" =>
              /\ result.val.k = "Seq"
              /\ Len(result.val.vals) = Len(OkYields)
              /\ \A i \in 1..Len(OkYields) : result.val.vals[i] = OkYields[i].val

\* C11 witness: Collect returned after two pairs and an error were yielded.
C11_Witness ==
    /\ agg_method = "Collect" /\ Returned
    /\ Len(OkYields) >= 2
    /\ Len(yielded) > Len(OkYields)

\* --------------------------------------------------------------- selection

\* The file names of the directory at hand, letter by letter, and their
\* modification times (two are equal).
Spelling ==
    "item.flac" :> <<"i", "t", "e", "m", ".", "f", "l", "a", "c">>
    @@ "music.flac" :> <<"m", "u", "s", "i", "c", ".", "f", "l", "a", "c">>
    @@ "music.mp3" :> <<"m", "u", "s", "i", "c", ".", "m", "p", "3">>
    @@ "self.flac" :> <<"s", "e", "l", "f", ".", "f", "l", "a", "c">>
SelNames == DOMAIN Spelling
SelMTime ==
    "music.flac" :> 1 @@ "item.flac" :> 2 @@ "self.flac" :> 3 @@ "music.mp3" :> 2

\* The glob patterns in use, letter by letter.
GlobSpelling ==
    "*" :> <<"*">>
    @@ "*.flac" :> <<"*", ".", "f", "l", "a", "c">>
    @@ "item*" :> <<"i", "t", "e", "m", "*">>
    @@ "self*" :> <<"s", "e", "l", "f", "*">>
    @@ "music*" :> <<"m", "u", "s", "i", "c", "*">>
Globs == DOMAIN GlobSpelling

\* Whether a glob accepts a string: "*" stands for any letters, every other
\* letter for itself.
RECURSIVE GlobMatch(_, _)
GlobMatch(pat, str) ==
    IF pat = <<>> THEN str = <<>>
    ELSE IF Head(pat) = "*"
         THEN IF GlobMatch(Tail(pat), str) THEN TRUE
              ELSE (str # <<>> /\ GlobMatch(pat, Tail(str)))
         ELSE (str # <<>> /\ Head(str) = Head(pat) /\ GlobMatch(Tail(pat), Tail(str)))

\* A Matcher is a set of globs.  Matcher::any, Matcher::empty.
MatcherAny == {"*"}
MatcherEmpty == {}

\* The file names each glob accepts.
GlobAccepts ==
    [g \in Globs |-> { n \in SelNames : GlobMatch(GlobSpelling[g], Spelling[n]) }]

\* Matcher::is_match: some glob accepts the path's file name.
MatcherIsMatch(matcher, path) == \E g \in matcher : path.name \in GlobAccepts[g]

\* The paths of the directory "x" that is listed, and of a second directory
\* "y" with entries of the same names.
SelPath(d, n) == [dir |-> d, name |-> n, mtime |-> SelMTime[n]]
SelPaths == { SelPath(d, n) : d \in {"x", "y"}, n \in SelNames }

\* std::fs::metadata of a path: a file, a directory, something else, or an
\* error.  Every entry of "y" is a directory.
EntryKinds == {"file", "dir", "other", "err"}
Stat(path) == IF path.dir = "x" THEN fs[path.name] ELSE "dir"

\* impl Default for Selection: every file but those named after a Target
\* (item*, self*), every directory.
SelectionDefault ==
    [include_files |-> MatcherAny, exclude_files |-> {"item*", "self*"},
     include_dirs |-> MatcherAny, exclude_dirs |-> MatcherEmpty]

\* A configuration text gives each of the four fields or leaves it out.
Absent == [given |-> FALSE]
Given(patterns) == [given |-> TRUE, patterns |-> patterns]
Configs ==
    [include_files : {Absent, Given({"*.flac"})},
     exclude_files : {Absent, Given({"item*"})},
     include_dirs : {Absent, Given({"music*"})},
     exclude_dirs : {Absent, Given({"self*"})}]
SelFields == {"include_files", "exclude_files", "include_dirs", "exclude_dirs"}

\* A deserialization that adds the given patterns to the default ones.
DeserializeAddsToDefault(cfg) ==
    [f \in SelFields |->
        IF ~cfg[f].given THEN SelectionDefault[f]
        ELSE IF SelectionDefault[f] = MatcherAny THEN cfg[f].patterns
        ELSE cfg[f].patterns \cup SelectionDefault[f]]

\* #[serde(default)] on Selection: a field left out takes its value from
\* Selection::default(), a field given replaces it.
Deserialize(cfg) ==
    [f \in SelFields |-> IF cfg[f].given THEN cfg[f].patterns ELSE SelectionDefault[f]]

\* A pattern match that looks the path up in the filesystem to tell files
\* from directories.
is_pattern_match_by_stat(sel, path, fod) ==
    IF Stat(path) = "dir"
    THEN MatcherIsMatch(sel.include_dirs, path) /\ ~MatcherIsMatch(sel.exclude_dirs, path)
    ELSE MatcherIsMatch(sel.include_files, path) /\ ~MatcherIsMatch(sel.exclude_files, path)

\* A pattern match that excludes by the file matcher whatever is asked.
is_pattern_match_one_exclude(sel, path, fod) ==
    LET inc == IF fod = "File" THEN sel.include_files ELSE sel.include_dirs
    IN  MatcherIsMatch(inc, path) /\ ~MatcherIsMatch(sel.exclude_files, path)

\* Selection::is_pattern_match
is_pattern_match(sel, path, fod) ==
    LET inc == IF fod = "File" THEN sel.include_files ELSE sel.include_dirs
        exc == IF fod = "File" THEN sel.exclude_files ELSE sel.exclude_dirs
    IN  MatcherIsMatch(inc, path) /\ ~MatcherIsMatch(exc, path)

is_file_pattern_match(sel, path) == is_pattern_match(sel, path, "File")
is_dir_pattern_match(sel, path) == is_pattern_match(sel, path, "Dir")

\* Selection::is_selected: Ok(bool), or the error of std::fs::metadata.
is_selected(sel, path) ==
    CASE Stat(path) = "err" -> [ok |-> FALSE]
      [] Stat(path) = "file" -> [ok |-> TRUE, val |-> is_file_pattern_match(sel, path)]
      [] Stat(path) = "dir" -> [ok |-> TRUE, val |-> is_dir_pattern_match(sel, path)]
      [] OTHER -> [ok |-> TRUE, val |-> FALSE]

\* What fs can be: every entry a file, a directory or an error of read_dir
\* or of std::fs::metadata; music.mp3 may also be neither file nor directory.
FsStates ==
    { f \in [SelNames -> EntryKinds] :
        \A n \in SelNames : f[n] = "other" => n = "music.mp3" }

\* The orders in which read_dir may give the entries; Unreadable when
\* read_dir itself fails.
Unreadable == <<"unreadable">>
CreationOrder == <<"music.flac", "item.flac", "self.flac", "music.mp3">>
DirOrders == {CreationOrder, Reverse(CreationOrder), Unreadable}

\* The filter_map closure of select_in_dir on one entry: Some(Ok(path)),
\* Some(Err(e)) or None, as a sequence of at most one item.
SelectEntry(sel, n) ==
    LET r == is_selected(sel, SelPath("x", n))
    IN  IF ~r.ok THEN <<ErrItem(n)>>
        ELSE IF r.val THEN <<OkItem(SelPath("x", n))>>
        ELSE <<>>

RECURSIVE SelectEntries(_, _)
SelectEntries(sel, order) ==
    IF order = <<>> THEN <<>>
    ELSE SelectEntry(sel, Head(order)) \o SelectEntries(sel, Tail(order))

\* Selection::select_in_dir on the directory "x".
select_in_dir(sel, order) ==
    IF order = Unreadable THEN [ok |-> FALSE]
    ELSE [ok |-> TRUE, val |-> SelectEntries(sel, order)]

\* A comparator that sorts the errors to the back.
SelCmpErrLast(srt, x, y) ==
    CASE x.t = "ok" /\ y.t = "ok" -> cmp_paths(srt, x.p, y.p)
      [] x.t = "err" /\ y.t = "ok" -> 1
      [] x.t = "ok" /\ y.t = "err" -> -1
      [] OTHER -> 0

\* The comparator closure of select_in_dir_sorted.
SelCmp(srt, x, y) ==
    CASE x.t = "ok" /\ y.t = "ok" -> cmp_paths(srt, x.p, y.p)
      [] x.t = "err" /\ y.t = "ok" -> -1
      [] x.t = "ok" /\ y.t = "err" -> 1
      [] OTHER -> 0

\* slice::sort_by with SelCmp: a stable sort.
RECURSIVE SelInsert(_, _, _)
SelInsert(srt, sq, x) ==
    IF sq = <<>> THEN <<x>>
    ELSE IF SelCmp(srt, sq[Len(sq)], x) <= 0 THEN Append(sq, x)
    ELSE Append(SelInsert(srt, SubSeq(sq, 1, Len(sq) - 1), x), sq[Len(sq)])

RECURSIVE SelSort(_, _)
SelSort(srt, sq) ==
    IF sq = <<>> THEN <<>>
    ELSE SelInsert(srt, SelSort(srt, SubSeq(sq, 1, Len(sq) - 1)), sq[Len(sq)])

\* Selection::select_in_dir_sorted on the directory "x".
SelectInDirSorted(sel, order, srt) ==
    LET r == select_in_dir(sel, order)
    IN  IF ~r.ok THEN r ELSE [ok |-> TRUE, val |-> SelSort(srt, r.val)]

\* The paths the pattern matches are asked about.
MatchPaths ==
    { SelPath("x", n) : n \in SelNames }
    \cup { SelPath("y", "music.flac"), SelPath("y", "self.flac") }

MatchFns == {"is_file_pattern_match", "is_dir_pattern_match"}

\* The directories the pattern matches are made beside: all files, all
\* directories, or one entry of each kind.
MatchFsStates ==
    { [n \in SelNames |-> "file"], [n \in SelNames |-> "dir"],
      ("music.flac" :> "dir" @@ "item.flac" :> "file" @@ "self.flac" :> "err"
          @@ "music.mp3" :> "other") }

\* A Selection is deserialized; nothing has been asked of it.
SelInitOf(fss, orders) ==
    /\ config \in Configs
    /\ selection = Deserialize(config)
    /\ fs \in fss
    /\ dir_order \in orders
    /\ prev_match = NoCall
    /\ last_call = NoCall
    /\ PlexIdle /\ AggIdle /\ SortIdle /\ OpsIdle
    /\ StackIdle /\ KeyIdle /\ ProcIdle
    /\ AdIdle /\ ArgIdle /\ OpndIdle

MatchInit == SelInitOf(MatchFsStates, {CreationOrder})
DirInit == SelInitOf(FsStates, DirOrders)

\* A call returns: it becomes the last call.
Returns(call) ==
    /\ last_call' = call
    /\ prev_match' = IF last_call.fn \in MatchFns THEN last_call ELSE prev_match
    /\ UNCHANGED <<config, selection, fs, dir_order>>
    /\ UNCHANGED <<plexvars, aggvars, sortvars, opsvars, stackvars, keyvars, procvars,
                   advars, argvars, opndvars>>

CallIsFilePatternMatch ==
    /\ selection # <<>>
    /\ \E path \in MatchPaths :
        Returns([fn |-> "is_file_pattern_match", path |-> path,
                 ret |-> is_file_pattern_match(selection, path)])

CallIsDirPatternMatch ==
    /\ selection # <<>>
    /\ \E path \in MatchPaths :
        Returns([fn |-> "is_dir_pattern_match", path |-> path,
                 ret |-> is_dir_pattern_match(selection, path)])

CallSelectInDir ==
    /\ selection # <<>>
    /\ Returns([fn |-> "select_in_dir", ret |-> select_in_dir(selection, dir_order)])

CallSelectInDirSorted ==
    /\ selection # <<>>
    /\ \E srt \in Sorters :
        Returns([fn |-> "select_in_dir_sorted", sorter |-> srt,
                 ret |-> SelectInDirSorted(selection, dir_order, srt)])

\* A caller sorts what select_in_dir gave it with Sorter::sort_path_results.
CallSortPathResults ==
    /\ dir_order # Unreadable
    /\ \E srt \in Sorters :
          Returns([fn |-> "sort_path_results", sorter |-> srt,
                   ret |-> sort_path_results(srt, select_in_dir(selection, dir_order).val)])

MatchNext == CallIsFilePatternMatch \/ CallIsDirPatternMatch
DirNext == CallSelectInDir \/ CallSelectInDirSorted \/ CallSortPathResults

\* Pattern matches on a Selection.
SpecSel == MatchInit /\ [][MatchNext]_vars
\* Listings of a directory with a Selection.
SpecDir == DirInit /\ [][DirNext]_vars

\* ------------------------------------------------ selection: derived notions

IsMatchCall(c) == c.fn \in MatchFns
\* How often an item occurs in a sequence.
Occurrences(sq, x) == Cardinality({ i \in 1..Len(sq) : sq[i] = x })
SameItems(sq1, sq2) ==
    /\ Len(sq1) = Len(sq2)
    /\ \A i \in 1..Len(sq1) : Occurrences(sq1, sq1[i]) = Occurrences(sq2, sq1[i])
\* Every Err before every Ok.
ErrsFirst(sq) ==
    \A i, j \in 1..Len(sq) : (sq[i].t = "ok" /\ sq[j].t = "err") => j < i
\* The Ok paths never decrease under the sorter's comparison.
OksInOrder(srt, sq) ==
    \A i, j \in 1..Len(sq) :
        (i < j /\ sq[i].t = "ok" /\ sq[j].t = "ok") => cmp_paths(srt, sq[i].p, sq[j].p) <= 0

\* C12: is_file_pattern_match is true iff include_files accepts the path and
\* exclude_files does not, is_dir_pattern_match iff include_dirs accepts it
\* and exclude_dirs does not; a Selection with other directory matchers gives
\* the same file result, one with other file matchers the same directory
\* result.
C12_IncludedAndNotExcluded ==
    /\ last_call.fn = "is_file_pattern_match" =>
          /\ last_call.ret =
                ( /\ MatcherIsMatch(selection.include_files, last_call.path)
                  /\ ~MatcherIsMatch(selection.exclude_files, last_call.path) )
          /\ \A c \in Configs :
                ( /\ c.include_files = config.include_files
                  /\ c.exclude_files = config.exclude_files )
                => is_file_pattern_match(Deserialize(c), last_call.path) = last_call.ret
    /\ last_call.fn = "is_dir_pattern_match" =>
          /\ last_call.ret =
                ( /\ MatcherIsMatch(selection.include_dirs, last_call.path)
                  /\ ~MatcherIsMatch(selection.exclude_dirs, last_call.path) )
          /\ \A c \in Configs :
                ( /\ c.include_dirs = config.include_dirs
                  /\ c.exclude_dirs = config.exclude_dirs )
                => is_dir_pattern_match(Deserialize(c), last_call.path) = last_call.ret

\* C12 witness: the same path was matched as a directory and then as a file,
\* with different results: the directory matchers reject it, the file
\* matchers let it pass.
C12_Witness ==
    /\ prev_match.fn = "is_dir_pattern_match" /\ last_call.fn = "is_file_pattern_match"
    /\ prev_match.path = last_call.path
    /\ ~prev_match.ret /\ last_call.ret
    /\ MatcherIsMatch(selection.exclude_dirs, last_call.path)

\* C13: two pattern matches of the same kind on paths with the same final
\* component give the same result, whatever the directories of the paths,
\* whatever the filesystem holds and whatever was asked before.
C13_SameNameSameResult ==
    ( /\ IsMatchCall(prev_match) /\ IsMatchCall(last_call)
      /\ prev_match.fn = last_call.fn
      /\ prev_match.path.name = last_call.path.name )
    => prev_match.ret = last_call.ret

\* C13 witness: a file match on a path that is a file and then on a path of
\* the same name elsewhere, which is a directory; both say yes.
C13_Witness ==
    /\ prev_match.fn = "is_file_pattern_match" /\ last_call.fn = "is_file_pattern_match"
    /\ prev_match.path.name = last_call.path.name
    /\ prev_match.path.dir = "x" /\ last_call.path.dir = "y"
    /\ Stat(prev_match.path) = "file" /\ Stat(last_call.path) = "dir"
    /\ prev_match.ret /\ last_call.ret
    /\ ~is_dir_pattern_match(selection, last_call.path)

\* The configuration that gives include_files '*.flac' and exclude_files
\* 'item*' and nothing else, and a directory of four files.
ScenarioConfig ==
    [include_files |-> Given({"*.flac"}), exclude_files |-> Given({"item*"}),
     include_dirs |-> Absent, exclude_dirs |-> Absent]
ScenarioListed ==
    /\ config = ScenarioConfig
    /\ fs = [n \in SelNames |-> "file"]
    /\ dir_order # Unreadable
    /\ last_call.fn = "select_in_dir"
ItemsOf(sq) == { sq[i] : i \in 1..Len(sq) }

\* C14 as claimed: with that configuration select_in_dir on the directory of
\* music.flac, item.flac, self.flac and music.mp3 returns exactly music.flac.
C14_OnlyMusicFlac ==
    ScenarioListed =>
        /\ last_call.ret.ok
        /\ ItemsOf(last_call.ret.val) = { OkItem(SelPath("x", "music.flac")) }

\* C14 amended: it returns exactly music.flac and self.flac, each once: the
\* exclude_files given replaces the default one, so self* is not excluded.
C14_MusicFlacAndSelfFlac ==
    ScenarioListed =>
        /\ last_call.ret.ok
        /\ Len(last_call.ret.val) = 2
        /\ ItemsOf(last_call.ret.val) =
              { OkItem(SelPath("x", "music.flac")), OkItem(SelPath("x", "self.flac")) }

\* C14 witness: select_in_dir has returned in that scenario.
C14_Witness == ScenarioListed /\ dir_order = CreationOrder /\ last_call.ret.ok

SortInit ==
    /\ path_vec \in SeqsUpTo(Paths, MaxPaths)
    /\ vec_before = path_vec
    /\ sort_call = NoCall
    /\ prev_cmp = NoCall /\ last_cmp = NoCall
    /\ PlexIdle /\ AggIdle /\ SelIdle /\ OpsIdle
    /\ StackIdle /\ KeyIdle /\ ProcIdle
    /\ AdIdle /\ ArgIdle /\ OpndIdle

\* Sorter::sort_paths sorts the slice in place.
CallSortPaths ==
    /\ \E srt \in Sorters :
          /\ path_vec' = sort_paths(srt, path_vec)
          /\ vec_before' = path_vec
          /\ sort_call' = [fn |-> "sort_paths", sorter |-> srt]
    /\ UNCHANGED <<prev_cmp, last_cmp>>
    /\ UNCHANGED <<plexvars, aggvars, selvars, opsvars, stackvars, keyvars, procvars,
                   advars, argvars, opndvars>>

SpecSort == SortInit /\ [][CallSortPaths]_vars

\* No path has been compared yet.
CmpInit ==
    /\ SortIdle /\ PlexIdle /\ AggIdle /\ SelIdle /\ OpsIdle
    /\ StackIdle /\ KeyIdle /\ ProcIdle
    /\ AdIdle /\ ArgIdle /\ OpndIdle

\* Sorter::cmp_paths on two paths.
CallCmpPaths ==
    /\ path_vec = <<>>
    /\ \E srt \in Sorters : \E a, b \in Paths :
          /\ last_cmp' = [fn |-> "cmp_paths", sorter |-> srt, a |-> a, b |-> b,
                         ret |-> cmp_paths(srt, a, b)]
          /\ prev_cmp' = last_cmp
    /\ UNCHANGED <<path_vec, vec_before, sort_call>>
    /\ UNCHANGED <<plexvars, aggvars, selvars, opsvars, stackvars, keyvars, procvars,
                   advars, argvars, opndvars>>

SpecCmp == CmpInit /\ [][CallCmpPaths]_vars

C17_DescendingReverses ==
    ( /\ prev_cmp.fn = "cmp_paths" /\ last_cmp.fn = "cmp_paths"
      /\ prev_cmp.a = last_cmp.a /\ prev_cmp.b = last_cmp.b
      /\ prev_cmp.sorter.sort_by = last_cmp.sorter.sort_by
      /\ prev_cmp.sorter.sort_order = "Ascending"
      /\ last_cmp.sorter.sort_order = "Descending" )
    => last_cmp.ret = 0 - prev_cmp.ret

\* C17 witness: two paths compared Less with Ascending and then Greater with
\* Descending.
C17_Witness ==
    /\ prev_cmp.fn = "cmp_paths" /\ last_cmp.fn = "cmp_paths"
    /\ prev_cmp.a = last_cmp.a /\ prev_cmp.b = last_cmp.b
    /\ prev_cmp.sorter.sort_by = last_cmp.sorter.sort_by
    /\ prev_cmp.sorter.sort_order = "Ascending"
    /\ last_cmp.sorter.sort_order = "Descending"
    /\ prev_cmp.ret = -1 /\ last_cmp.ret = 1

\* ------------------------------------------------------------ script values

\* Most items in a value stream.
MaxItems == 3

\* MetaVal::Int, MetaVal::Str, MetaVal::Bul
IntVal(n) == [k |-> "Int", n |-> n]
StrVal(str) == [k |-> "Str", s |-> str]
BulVal(b) == [k |-> "Bul", b |-> b]
OpVals == {IntVal(1), IntVal(2), StrVal("s")}

\* The items of a value stream: Ok(value) or Err(error).
ResOk(v) == [t |-> "Ok", val |-> v]
ResErr(e) == [t |-> "Err", err |-> e]
StreamItems == {ResOk(v) : v \in OpVals} \cup {ResErr("Sentinel")}
Streams == SeqsUpTo(StreamItems, MaxItems)

\* Fixed::new(seq): the stream that yields the sequence's values as Ok items.
Fixed(seq) == [i \in 1..Len(seq) |-> ResOk(seq[i])]
\* The values of a stream of Ok items.
ValsOf(st) == [i \in 1..Len(st) |-> st[i].val]

\* What an operator does to its input: what it returns (ret) and how many
\* items it has taken from the stream when it returns (pulled).
Done(ret, pulled) == [ret |-> ret, pulled |-> pulled]

\* A unary predicate applied to a value: "is_one" is total, "is_positive"
\* needs a number.
Preds == {"is_one", "is_positive"}
PredProcess(u_pred, mv) ==
    IF u_pred = "is_one" THEN ResOk(mv = IntVal(1))
    ELSE IF mv.k = "Int" THEN ResOk(mv.n > 0)
    ELSE ResErr("NotNumeric")

\* ------------------------------------------- functions/operator/binary.rs

\* An nth that goes through the whole stream before it answers.
RECURSIVE nth_forcing(_, _, _)
nth_forcing(vp, n, k) ==
    IF k > Len(vp)
    THEN (IF n < Len(vp) THEN Done(vp[n + 1], Len(vp))
          ELSE Done(ResErr("OutOfBounds"), Len(vp)))
    ELSE IF vp[k].t = "Err" THEN Done(vp[k], k)
    ELSE nth_forcing(vp, n, k + 1)

\* Impl::nth: the for loop, at the k-th item (i = k - 1).
RECURSIVE nth_loop(_, _, _)
nth_loop(vp, n, k) ==
    IF k > Len(vp) THEN Done(ResErr("OutOfBounds"), Len(vp))
    ELSE IF vp[k].t = "Err" THEN Done(vp[k], k)
    ELSE IF k - 1 = n THEN Done(vp[k], k)
    ELSE nth_loop(vp, n, k + 1)

nth(vp, n) == nth_loop(vp, n, 1)

\* Impl::nth_s
nth_s(seq, n) ==
    IF n < Len(seq) THEN ResOk(seq[n + 1]) ELSE ResErr("OutOfBounds")

\* AllAny::target
target(flag) == flag = "Any"

\* An all_any that goes on to the end of the stream once its answer is
\* decided.
RECURSIVE all_any_loop_forcing(_, _, _, _)
all_any_loop_forcing(vp, u_pred, flag, k) ==
    IF k > Len(vp) THEN Done(ResOk(~target(flag)), Len(vp))
    ELSE IF vp[k].t = "Err" THEN Done(vp[k], k)
    ELSE LET b == PredProcess(u_pred, vp[k].val)
         IN  IF b.t = "Err" THEN Done(b, k)
             ELSE IF b.val = target(flag) THEN Done(ResOk(target(flag)), Len(vp))
             ELSE all_any_loop_forcing(vp, u_pred, flag, k + 1)

\* Impl::all_any: the for loop, at the k-th item.
RECURSIVE all_any_loop(_, _, _, _)
all_any_loop(vp, u_pred, flag, k) ==
    IF k > Len(vp) THEN Done(ResOk(~target(flag)), Len(vp))
    ELSE IF vp[k].t = "Err" THEN Done(vp[k], k)
    ELSE LET b == PredProcess(u_pred, vp[k].val)
         IN  IF b.t = "Err" THEN Done(b, k)
             ELSE IF b.val = target(flag) THEN Done(ResOk(target(flag)), k)
             ELSE all_any_loop(vp, u_pred, flag, k + 1)

all_any(vp, u_pred, flag) == all_any_loop(vp, u_pred, flag, 1)
\* Impl::all, Impl::any
all(vp, u_pred) == all_any(vp, u_pred, "All")
any(vp, u_pred) == all_any(vp, u_pred, "Any")

\* What a function returns that is no Result, and a panic.
Plain(v) == [t |-> "Plain", val |-> v]
Panic == [t |-> "Panic"]

\* Impl::all_s, Impl::any_s: all_any on Fixed::new(seq); Err is unreachable!().
all_s(seq, u_pred) ==
    LET r == all_any(Fixed(seq), u_pred, "All").ret
    IN  IF r.t = "Err" THEN Panic ELSE Plain(r.val)
any_s(seq, u_pred) ==
    LET r == all_any(Fixed(seq), u_pred, "Any").ret
    IN  IF r.t = "Err" THEN Panic ELSE Plain(r.val)

\* Impl::find: the for loop, at the k-th item.
RECURSIVE find_loop(_, _, _)
find_loop(vp, u_pred, k) ==
    IF k > Len(vp) THEN Done(ResErr("ItemNotFound"), Len(vp))
    ELSE IF vp[k].t = "Err" THEN Done(vp[k], k)
    ELSE LET b == PredProcess(u_pred, vp[k].val)
         IN  IF b.t = "Err" THEN Done(b, k)
             ELSE IF b.val THEN Done(vp[k], k)
             ELSE find_loop(vp, u_pred, k + 1)

find(vp, u_pred) == find_loop(vp, u_pred, 1)
find_s(seq, u_pred) == find(Fixed(seq), u_pred).ret

\* A position that counts from one.
RECURSIVE position_loop_from_one(_, _, _)
position_loop_from_one(vp, u_pred, k) ==
    IF k > Len(vp) THEN Done(ResErr("ItemNotFound"), Len(vp))
    ELSE IF vp[k].t = "Err" THEN Done(vp[k], k)
    ELSE LET b == PredProcess(u_pred, vp[k].val)
         IN  IF b.t = "Err" THEN Done(b, k)
             ELSE IF b.val THEN Done(ResOk(k), k)
             ELSE position_loop_from_one(vp, u_pred, k + 1)

\* Impl::position: the for loop, at the k-th item (i = k - 1).
RECURSIVE position_loop(_, _, _)
position_loop(vp, u_pred, k) ==
    IF k > Len(vp) THEN Done(ResErr("ItemNotFound"), Len(vp))
    ELSE IF vp[k].t = "Err" THEN Done(vp[k], k)
    ELSE LET b == PredProcess(u_pred, vp[k].val)
         IN  IF b.t = "Err" THEN Done(b, k)
             ELSE IF b.val THEN Done(ResOk(k - 1), k)
             ELSE position_loop(vp, u_pred, k + 1)

position(vp, u_pred) == position_loop(vp, u_pred, 1)
position_s(seq, u_pred) == position(Fixed(seq), u_pred).ret

\* ------------------------------------------ metadata/resolver/ops/unary.rs

\* IterableLike::Stream, IterableLike::Sequence
Stream(st) == [kind |-> "Stream", items |-> st]
Sequence(sq) == [kind |-> "Sequence", vals |-> sq]
\* IterableLike::into_iter
into_iter(il) ==
    IF il.kind = "Stream" THEN il.items
    ELSE [i \in 1..Len(il.vals) |-> ResOk(il.vals[i])]

\* The order of values Sort goes by: strings before integers, integers by
\* their size.
ValRank(v) == IF v.k = "Int" THEN 10 + v.n ELSE 0

RECURSIVE InsertVal(_, _)
InsertVal(sq, x) ==
    IF sq = <<>> THEN <<x>>
    ELSE IF ValRank(sq[Len(sq)]) <= ValRank(x) THEN Append(sq, x)
    ELSE Append(InsertVal(SubSeq(sq, 1, Len(sq) - 1), x), sq[Len(sq)])

\* coll.sort()
RECURSIVE SortVals(_)
SortVals(sq) ==
    IF sq = <<>> THEN <<>>
    ELSE InsertVal(SortVals(SubSeq(sq, 1, Len(sq) - 1)), sq[Len(sq)])

\* A collect that gives the values last first.
RECURSIVE collect_loop_reversed(_, _)
collect_loop_reversed(st, k) ==
    IF k > Len(st) THEN Done(ResOk(Reverse(ValsOf(st))), Len(st))
    ELSE IF st[k].t = "Err" THEN Done(st[k], k)
    ELSE collect_loop_reversed(st, k + 1)

\* st.collect::<Result<Vec<_>, _>>(), at the k-th item: the values, or the
\* first error.
RECURSIVE collect_loop(_, _)
collect_loop(st, k) ==
    IF k > Len(st) THEN Done(ResOk(ValsOf(st)), Len(st))
    ELSE IF st[k].t = "Err" THEN Done(st[k], k)
    ELSE collect_loop(st, k + 1)

\* The Stream and Sequence arms that give a Vec: collect, or the sequence.
Coll(il) ==
    IF il.kind = "Stream" THEN collect_loop(il.items, 1)
    ELSE Done(ResOk(il.vals), 0)

\* for mv in iterable { mv?.try_into()? }, at the k-th item: the numbers, or
\* the first error.
RECURSIVE num_loop(_, _)
num_loop(it, k) ==
    IF k > Len(it) THEN Done(ResOk([i \in 1..Len(it) |-> it[i].val.n]), Len(it))
    ELSE IF it[k].t = "Err" THEN Done(it[k], k)
    ELSE IF it[k].val.k # "Int" THEN Done(ResErr("NotNumeric"), k)
    ELSE num_loop(it, k + 1)

RECURSIVE SumOf(_)
SumOf(ns) == IF ns = <<>> THEN 0 ELSE Head(ns) + SumOf(Tail(ns))
\* A product that starts from 0.
RECURSIVE ProductOfFromZero(_)
ProductOfFromZero(ns) ==
    IF ns = <<>> THEN 0 ELSE Head(ns) * ProductOfFromZero(Tail(ns))
RECURSIVE ProductOf(_)
ProductOf(ns) == IF ns = <<>> THEN 1 ELSE Head(ns) * ProductOf(Tail(ns))
MaxOf(ns) == CHOOSE m \in {ns[i] : i \in 1..Len(ns)} : \A i \in 1..Len(ns) : ns[i] <= m
MinOf(ns) == CHOOSE m \in {ns[i] : i \in 1..Len(ns)} : \A i \in 1..Len(ns) : ns[i] >= m

\* The AllEqual arm's for loop over the rest of the iterator, at the k-th
\* item.
RECURSIVE all_equal_loop(_, _, _)
all_equal_loop(it, first, k) ==
    IF k > Len(it) THEN Done(ResOk(BulVal(TRUE)), Len(it))
    ELSE IF it[k].t = "Err" THEN Done(it[k], k)
    ELSE IF it[k].val # first THEN Done(ResOk(BulVal(FALSE)), k)
    ELSE all_equal_loop(it, first, k + 1)

\* A First arm that collects the iterable before it takes the first value.
FirstForcing(il) ==
    LET c == Coll(Stream(into_iter(il)))
    IN  IF c.ret.t = "Err" THEN c
        ELSE Done(ResOk(IF c.ret.val = <<>> THEN Nil ELSE c.ret.val[1]), c.pulled)

\* The First arm of UnaryOp::process.
FirstArm(il) ==
    LET it == into_iter(il)
    IN  IF it = <<>> THEN Done(ResOk(Nil), 0) ELSE Done(it[1], 1)

\* A Rev arm that reverses only what comes from a stream.
RevArmStreamOnly(il, c) == IF il.kind = "Stream" THEN Reverse(c) ELSE c

\* The Rev arm of UnaryOp::process on the collected values.
RevArm(il, c) == Reverse(c)

UnaryOps ==
    {"Collect", "Count", "First", "Last", "MaxIn", "MinIn", "Rev", "Sum",
     "Product", "AllEqual", "Sort"}

\* UnaryOp::process on the iterable popped from the stack: the operand
\* pushed, or the error.
UnaryProcess(op, il) ==
    CASE op \in {"Collect", "Rev", "Sort"} ->
            LET c == Coll(il)
            IN  IF c.ret.t = "Err" THEN c
                ELSE Done(ResOk(SeqVal(CASE op = "Rev" -> RevArm(il, c.ret.val)
                                         [] op = "Sort" -> SortVals(c.ret.val)
                                         [] OTHER -> c.ret.val)),
                          c.pulled)
      [] op = "Count" ->
            LET c == Coll(il)
            IN  IF c.ret.t = "Err" THEN c
                ELSE Done(ResOk(IntVal(Len(c.ret.val))), c.pulled)
      [] op = "First" -> FirstArm(il)
      [] op = "Last" ->
            LET c == Coll(il)
            IN  IF c.ret.t = "Err" THEN c
                ELSE Done(ResOk(IF c.ret.val = <<>> THEN Nil
                                ELSE c.ret.val[Len(c.ret.val)]),
                          c.pulled)
      [] op \in {"MaxIn", "MinIn"} ->
            LET c == num_loop(into_iter(il), 1)
            IN  IF c.ret.t = "Err" THEN c
                ELSE IF c.ret.val = <<>> THEN Done(ResErr("EmptyIterable"), c.pulled)
                ELSE Done(ResOk(IntVal(IF op = "MaxIn" THEN MaxOf(c.ret.val)
                                       ELSE MinOf(c.ret.val))),
                          c.pulled)
      [] op \in {"Sum", "Product"} ->
            LET c == num_loop(into_iter(il), 1)
            IN  IF c.ret.t = "Err" THEN c
                ELSE Done(ResOk(IntVal(IF op = "Sum" THEN SumOf(c.ret.val)
                                       ELSE ProductOf(c.ret.val))),
                          c.pulled)
      [] op = "AllEqual" ->
            LET it == into_iter(il)
            IN  IF it = <<>> THEN Done(ResOk(BulVal(TRUE)), 0)
                ELSE IF it[1].t = "Err" THEN Done(it[1], 1)
                ELSE all_equal_loop(it, it[1].val, 2)

\* ------------------------------------------------ operators: specification

NthArgs == 0..MaxItems
PredFns == {"All", "Any", "Find", "Position"}

\* Impl's stream variants and sequence variants of the predicate operators.
PredOnStream(fn, vp, u_pred) ==
    CASE fn = "All" -> all(vp, u_pred)
      [] fn = "Any" -> any(vp, u_pred)
      [] fn = "Find" -> find(vp, u_pred)
      [] fn = "Position" -> position(vp, u_pred)
PredOnSequence(fn, seq, u_pred) ==
    CASE fn = "All" -> all_s(seq, u_pred)
      [] fn = "Any" -> any_s(seq, u_pred)
      [] fn = "Find" -> find_s(seq, u_pred)
      [] fn = "Position" -> position_s(seq, u_pred)

AllOk(st) == \A i \in 1..Len(st) : st[i].t = "Ok"

\* A value stream is at hand; no operator has been applied.
OpsInit ==
    /\ stream \in Streams
    /\ stream_call = NoCall
    /\ seq_call = NoCall
    /\ PlexIdle /\ AggIdle /\ SelIdle /\ SortIdle
    /\ StackIdle /\ KeyIdle /\ ProcIdle
    /\ AdIdle /\ ArgIdle /\ OpndIdle

OnStream(fn, arg, r) ==
    /\ stream_call' = [fn |-> fn, arg |-> arg, ret |-> r.ret, pulled |-> r.pulled]
    /\ UNCHANGED <<stream, seq_call>>
    /\ UNCHANGED <<plexvars, aggvars, selvars, sortvars, stackvars, keyvars, procvars,
                   advars, argvars, opndvars>>

OnSequence(fn, arg, ret) ==
    /\ seq_call' = [fn |-> fn, arg |-> arg, ret |-> ret]
    /\ UNCHANGED <<stream, stream_call>>
    /\ UNCHANGED <<plexvars, aggvars, selvars, sortvars, stackvars, keyvars, procvars,
                   advars, argvars, opndvars>>

\* UnaryOp::process with the stream on top of the stack.
UnaryOnStream ==
    \E op \in UnaryOps : OnStream(op, <<>>, UnaryProcess(op, Stream(stream)))

\* UnaryOp::process with the sequence of the stream's values on top.
UnaryOnSequence ==
    /\ AllOk(stream)
    /\ \E op \in UnaryOps :
          OnSequence(op, <<>>, UnaryProcess(op, Sequence(ValsOf(stream))).ret)

NthOnStream ==
    \E n \in NthArgs : OnStream("Nth", <<n>>, nth(stream, n))

NthOnSequence ==
    /\ AllOk(stream)
    /\ \E n \in NthArgs : OnSequence("Nth", <<n>>, nth_s(ValsOf(stream), n))

PredFnOnStream ==
    \E fn \in PredFns, u_pred \in Preds :
          OnStream(fn, <<u_pred>>, PredOnStream(fn, stream, u_pred))

PredFnOnSequence ==
    /\ AllOk(stream)
    /\ \E fn \in PredFns, u_pred \in Preds :
          OnSequence(fn, <<u_pred>>, PredOnSequence(fn, ValsOf(stream), u_pred))

OpsNext ==
    \/ UnaryOnStream
    \/ UnaryOnSequence
    \/ NthOnStream
    \/ NthOnSequence
    \/ PredFnOnStream
    \/ PredFnOnSequence

SpecOps == OpsInit /\ [][OpsNext]_vars

\* ------------------------------------------------------ operators: claims

HasErr(st) == \E i \in 1..Len(st) : st[i].t = "Err"
\* The index of the first item of st at which Stops holds, Len(st) if none.
StopAt(st, Stops(_)) ==
    IF \E i \in 1..Len(st) : Stops(i)
    THEN CHOOSE i \in 1..Len(st) : Stops(i) /\ \A j \in 1..(i - 1) : ~Stops(j)
    ELSE Len(st)
FirstErrIx(st) == StopAt(st, LAMBDA i : st[i].t = "Err")

\* C18: nth(stream, n) gives item n when items 0..n are Ok, whatever comes
\* later; the first error when an error item is at an index <= n;
\* OutOfBounds when the stream ends without error before item n. nth_s(seq, n)
\* gives seq[n] when n < len(seq), OutOfBounds otherwise.
C18_NthResult ==
    /\ stream_call.fn = "Nth" =>
          LET n == stream_call.arg[1]
          IN  /\ (n < Len(stream) /\ \A i \in 1..(n + 1) : stream[i].t = "Ok")
                    => stream_call.ret = stream[n + 1]
              /\ (\E i \in 1..Len(stream) : i <= n + 1 /\ stream[i].t = "Err")
                    => stream_call.ret = stream[FirstErrIx(stream)]
              /\ (Len(stream) < n + 1 /\ ~HasErr(stream))
                    => stream_call.ret = ResErr("OutOfBounds")
    /\ seq_call.fn = "Nth" =>
          LET n == seq_call.arg[1]
          IN  seq_call.ret = IF n < Len(stream) THEN stream[n + 1]
                             ELSE ResErr("OutOfBounds")

\* nth has answered with the Ok item at index 1 of a stream whose item at
\* index 2 is an error.
C18_Witness ==
    /\ stream_call.fn = "Nth"
    /\ stream_call.arg[1] = 1
    /\ Len(stream) = 3
    /\ stream[3].t = "Err"
    /\ stream_call.ret = stream[2]
    /\ stream_call.ret.t = "Ok"

SingleValueFns ==
    {"Count", "First", "Last", "MaxIn", "MinIn", "Sum", "Product", "AllEqual",
     "Nth", "All", "Any", "Find", "Position"}

\* C19 as stated: every operator that outputs a single value consumes its
\* input stream to the end, and its result is the first error item when the
\* stream has one.
C19_EveryReducerForces ==
    stream_call.fn \in SingleValueFns =>
        IF HasErr(stream)
        THEN stream_call.ret = stream[FirstErrIx(stream)]
        ELSE stream_call.pulled = Len(stream)

\* Does the operator of the call stop at the i-th item of the stream?
StopsAt(call, i) ==
    LET it == stream[i]
    IN  \/ it.t = "Err"
        \/ /\ call.fn \in {"MaxIn", "MinIn", "Sum", "Product"}
           /\ it.val.k # "Int"
        \/ call.fn = "First"
        \/ /\ call.fn = "AllEqual"
           /\ it.val # stream[1].val
        \/ /\ call.fn = "Nth"
           /\ i = call.arg[1] + 1
        \/ /\ call.fn \in {"All", "Any", "Find", "Position"}
           /\ LET b == PredProcess(call.arg[1], it.val)
              IN  b.t = "Err" \/ b.val = (call.fn # "All")

\* C19: Count and Last consume the stream up to its first error item, or to
\* its end; Max, Min, Sum and Product also stop at the first item that is no
\* number; First, AllEqual, Nth, All, Any, Find and Position stop at the item
\* that decides their result and pull nothing after it. The result is an
\* error item of the stream exactly when the operator stopped at that item.
C19_ReducersStopAtDecidingItem ==
    stream_call.fn \in SingleValueFns =>
        LET at == StopAt(stream, LAMBDA i : StopsAt(stream_call, i))
        IN  /\ stream_call.pulled = at
            /\ (at >= 1 /\ stream[at].t = "Err") => stream_call.ret = stream[at]
            /\ stream_call.ret = ResErr("Sentinel")
                  => (at >= 1 /\ stream[at].t = "Err")

\* First has answered with the first item of a stream whose second item is
\* an error, having pulled one item.
C19_Witness ==
    /\ stream_call.fn = "First"
    /\ Len(stream) >= 2
    /\ stream[1].t = "Ok"
    /\ stream[2].t = "Err"
    /\ stream_call.ret = stream[1]
    /\ stream_call.pulled = 1

BothFormFns ==
    {"Nth", "All", "Any", "Find", "Position",
     "Collect", "Rev", "Sort", "Count", "First", "Last"}

\* C20: when the stream variant of an operator succeeds on the stream of a
\* sequence's elements, the sequence variant called with the same argument
\* gives the same result.
C20_StreamAndSequenceAgree ==
    (/\ stream_call.fn \in BothFormFns
     /\ seq_call.fn = stream_call.fn
     /\ seq_call.arg = stream_call.arg
     /\ stream_call.ret.t = "Ok")
        => /\ seq_call.ret.t \in {"Ok", "Plain"}
           /\ seq_call.ret.val = stream_call.ret.val

\* Rev has been applied to a stream of two different values and to their
\* sequence.
C20_Witness ==
    /\ stream_call.fn = "Rev"
    /\ seq_call.fn = "Rev"
    /\ Len(stream) >= 2
    /\ stream[1] # stream[2]
    /\ stream_call.ret.t = "Ok"
    /\ seq_call.ret = stream_call.ret

\* ---------------------------------- metadata/resolver/ops: operand stack

MaxDepth == 1
MaxOps == 2

\* Operand::Stream, Operand::Value
OperandStream(st) == [o |-> "Stream", items |-> st]
OperandValue(mv) == [o |-> "Value", val |-> mv]

\* The operands a stack starts with: streams with and without an error item,
\* a sequence, and a value that is no iterable.
StackStreams ==
    {<<>>,
     <<ResOk(IntVal(2)), ResOk(IntVal(1))>>,
     <<ResOk(IntVal(1)), ResErr("Sentinel")>>}
StackOperands ==
    {OperandStream(st) : st \in StackStreams}
        \cup {OperandValue(SeqVal(<<IntVal(2), StrVal("s")>>)),
              OperandValue(IntVal(1))}

\* IterableLike::try_from(Operand)
IterableLikeFrom(operand) ==
    IF operand.o = "Stream" THEN ResOk(Stream(operand.items))
    ELSE IF operand.o = "Value" /\ operand.val.k = "Seq"
         THEN ResOk(Sequence(operand.val.vals))
    ELSE ResErr("NotIterable")

\* OperandStack::pop_iterable_like: the stack left, and the iterable or the
\* error.
pop_iterable_like(stk) ==
    IF stk = <<>> THEN [stack |-> stk, ret |-> ResErr("EmptyStack")]
    ELSE [stack |-> SubSeq(stk, 1, Len(stk) - 1),
          ret |-> IterableLikeFrom(stk[Len(stk)])]

\* OperandStack::push
push(stk, operand) == Append(stk, operand)

UnitOk == [t |-> "Ok"]

\* A process that reads the top operand and leaves it on the stack.
UnaryOpProcessKeepsOperand(op, stk) ==
    LET p == pop_iterable_like(stk)
    IN  IF p.ret.t = "Err" THEN [stack |-> stk, ret |-> p.ret]
        ELSE LET r == UnaryProcess(op, p.ret.val).ret
             IN  IF r.t = "Err" THEN [stack |-> stk, ret |-> r]
                 ELSE [stack |-> push(stk, OperandValue(r.val)), ret |-> UnitOk]

\* UnaryOp::process on a stack: the stack left, and Ok(()) or the error.
UnaryOpProcess(op, stk) ==
    LET p == pop_iterable_like(stk)
    IN  IF p.ret.t = "Err" THEN [stack |-> p.stack, ret |-> p.ret]
        ELSE LET r == UnaryProcess(op, p.ret.val).ret
             IN  IF r.t = "Err" THEN [stack |-> p.stack, ret |-> r]
                 ELSE [stack |-> push(p.stack, OperandValue(r.val)),
                       ret |-> UnitOk]

NullaryOps == {"Parents", "Children"}

\* What the MetaValueStream over the parents, and over the children, of the
\* current item yields.
NullaryStream(op) ==
    IF op = "Parents" THEN <<ResOk(IntVal(1))>>
    ELSE <<ResOk(StrVal("s")), ResErr("Sentinel")>>

\* NullaryOp::process on a stack.
NullaryOpProcess(op, stk) ==
    [stack |-> push(stk, OperandStream(NullaryStream(op))), ret |-> UnitOk]

\* A stack of operands; no operator has been processed.
StackInit ==
    /\ stack \in SeqsUpTo(StackOperands, MaxDepth)
    /\ ops_done = <<>>
    /\ PlexIdle /\ AggIdle /\ SelIdle /\ SortIdle /\ OpsIdle
    /\ KeyIdle /\ ProcIdle
    /\ AdIdle /\ ArgIdle /\ OpndIdle

Processed(op, r) ==
    /\ stack' = r.stack
    /\ ops_done' = Append(ops_done, [op |-> op, before |-> stack,
                                     after |-> r.stack, ret |-> r.ret])
    /\ UNCHANGED <<plexvars, aggvars, selvars, sortvars, opsvars, keyvars,
                   procvars,
                   advars, argvars, opndvars>>

ProcessUnary ==
    /\ Len(ops_done) < MaxOps
    /\ \E op \in UnaryOps : Processed(op, UnaryOpProcess(op, stack))

ProcessNullary ==
    /\ Len(ops_done) < MaxOps
    /\ \E op \in NullaryOps : Processed(op, NullaryOpProcess(op, stack))

StackNext ==
    \/ ProcessUnary
    \/ ProcessNullary

SpecStack == StackInit /\ [][StackNext]_vars

\* ------------------------------------------------- operand stack: claims

Top(stk) == stk[Len(stk)]
Below(stk) == SubSeq(stk, 1, Len(stk) - 1)

\* C21: when Collect has succeeded on a stream S and First or Count is
\* processed next, First leaves the first value of S (Nil when S is empty)
\* and Count leaves what Count on S itself gives; Collect leaves the sequence
\* of the values of S in the order of S.
C21_CollectRoundTrip ==
    \A i \in 1..Len(ops_done) :
        (/\ ops_done[i].op = "Collect"
         /\ ops_done[i].ret.t = "Ok"
         /\ Top(ops_done[i].before).o = "Stream")
        => LET S == Top(ops_done[i].before).items
           IN  /\ Top(ops_done[i].after) = OperandValue(SeqVal(ValsOf(S)))
               /\ (i < Len(ops_done) /\ ops_done[i + 1].op = "First")
                     => /\ ops_done[i + 1].ret.t = "Ok"
                        /\ Top(ops_done[i + 1].after)
                              = OperandValue(IF S = <<>> THEN Nil ELSE S[1].val)
               /\ (i < Len(ops_done) /\ ops_done[i + 1].op = "Count")
                     => /\ ops_done[i + 1].ret.t = "Ok"
                        /\ Top(ops_done[i + 1].after)
                              = OperandValue(IntVal(Len(S)))
                        /\ Top(ops_done[i + 1].after)
                              = Top(UnaryOpProcess("Count", ops_done[i].before).stack)

\* Collect and then First have been processed on a stream of two different
\* values.
C21_Witness ==
    /\ Len(ops_done) = 2
    /\ ops_done[1].op = "Collect"
    /\ ops_done[2].op = "First"
    /\ ops_done[1].before # <<>>
    /\ Top(ops_done[1].before).o = "Stream"
    /\ Len(Top(ops_done[1].before).items) = 2
    /\ ops_done[2].ret.t = "Ok"

\* C22: a successful UnaryOp::process leaves the stack as deep as it was,
\* with the operands below the top as they were and one operand in place of
\* the top; a NullaryOp::process succeeds and leaves the stack as it was with
\* one Stream operand on top of it.
C22_FixedArity ==
    \A i \in 1..Len(ops_done) :
        LET e == ops_done[i]
        IN  /\ (e.op \in UnaryOps /\ e.ret.t = "Ok")
                  => /\ e.before # <<>>
                     /\ Len(e.after) = Len(e.before)
                     /\ Below(e.after) = Below(e.before)
                     /\ Top(e.after).o = "Value"
            /\ e.op \in NullaryOps
                  => /\ e.ret.t = "Ok"
                     /\ Len(e.after) = Len(e.before) + 1
                     /\ Below(e.after) = e.before
                     /\ Top(e.after).o = "Stream"

\* A unary operator has succeeded on a stack of two operands, the upper one
\* pushed by a nullary operator.
C22_Witness ==
    /\ Len(ops_done) = 2
    /\ ops_done[1].op \in NullaryOps
    /\ ops_done[2].op \in UnaryOps
    /\ ops_done[2].ret.t = "Ok"
    /\ Len(ops_done[2].before) = 2
    /\ Len(stack) = 2

\* --------------------------------------------- unary reducers: claims

\* What a reducer gives on an empty iterable.
OnEmpty(call) ==
    /\ call.fn \in {"First", "Last"} => call.ret = ResOk(Nil)
    /\ call.fn = "Sum" => call.ret = ResOk(IntVal(0))
    /\ call.fn = "Product" => call.ret = ResOk(IntVal(1))
    /\ call.fn = "AllEqual" => call.ret = ResOk(BulVal(TRUE))
    /\ call.fn = "Count" => call.ret = ResOk(IntVal(0))
    /\ call.fn \in {"MaxIn", "MinIn"} => call.ret = ResErr("EmptyIterable")

AllNumbers(st) == \A i \in 1..Len(st) : st[i].t = "Ok" /\ st[i].val.k = "Int"

\* C23: on an empty stream and on an empty sequence First and Last give Nil,
\* Sum 0, Product 1, AllEqual true, Count 0, and Max and Min fail with
\* EmptyIterable; on numbers, one or more, Max and Min succeed.
C23_ReducersOnEmpty ==
    /\ stream = <<>> => (OnEmpty(stream_call) /\ OnEmpty(seq_call))
    /\ (stream # <<>> /\ AllNumbers(stream))
          => /\ stream_call.fn \in {"MaxIn", "MinIn"} => stream_call.ret.t = "Ok"
             /\ seq_call.fn \in {"MaxIn", "MinIn"} => seq_call.ret.t = "Ok"

\* Max has failed on the empty stream, and Product has been applied to the
\* empty sequence.
C23_Witness ==
    /\ stream = <<>>
    /\ stream_call.fn = "MaxIn"
    /\ stream_call.ret = ResErr("EmptyIterable")
    /\ seq_call.fn = "Product"

\* ------------------------------------------------------- Sort: claims

MixedKinds(st) ==
    \E i, j \in 1..Len(st) : st[i].val.k = "Int" /\ st[j].val.k = "Str"

\* Is the sequence out a permutation of the sequence in, in non-decreasing
\* order?
SortedPermutation(in, out) ==
    /\ Len(out) = Len(in)
    /\ \A v \in {in[i] : i \in 1..Len(in)} :
          Cardinality({i \in 1..Len(in) : in[i] = v})
              = Cardinality({i \in 1..Len(out) : out[i] = v})
    /\ \A i \in 1..(Len(out) - 1) : ValRank(out[i]) <= ValRank(out[i + 1])

\* C24: Sort on values of which two are of incomparable kinds (an integer and
\* a string) fails with NotComparable; on mutually comparable values it gives
\* a permutation of them in non-decreasing order.
C24_SortFailsOnIncomparable ==
    (stream_call.fn = "Sort" /\ AllOk(stream))
        => IF MixedKinds(stream)
           THEN stream_call.ret = ResErr("NotComparable")
           ELSE /\ stream_call.ret.t = "Ok"
                /\ SortedPermutation(ValsOf(stream), stream_call.ret.val.vals)

\* -------------------------------------- metadata/types/val.rs: key paths

MaxKeyPath == 2

\* MetaVal::Map
MapVal(map) == [k |-> "Map", map |-> map]
Some(v) == [t |-> "Some", val |-> v]

\* The keys of key paths; key_x is a key of no mapping.
MetaKeys == {"key_a", "key_b", "key_x"}
MapKeys == {"key_a", "key_b"}

\* The mappings of some of MapKeys to the given values.
MapsOver(vals) == {MapVal(f) : f \in UNION {[D -> vals] : D \in SUBSET MapKeys}}

\* Values of every shape: non-mappings, mappings, mappings of mappings.
LeafVals == {Nil, StrVal("val_a")}
KeyVals ==
    LeafVals \cup {SeqVal(<<StrVal("val_a")>>)}
        \cup MapsOver(LeafVals \cup MapsOver(LeafVals))

\* A get_key_path that gives the current value when it is no mapping.
RECURSIVE get_key_path_lenient(_, _)
get_key_path_lenient(curr_val, key_path) ==
    IF key_path = <<>> THEN Some(curr_val)
    ELSE IF curr_val.k # "Map" THEN Some(curr_val)
    ELSE IF Head(key_path) \notin DOMAIN curr_val.map THEN None
    ELSE get_key_path_lenient(curr_val.map[Head(key_path)], Tail(key_path))

\* MetaVal::get_key_path: the for loop over the keys left.
RECURSIVE get_key_path(_, _)
get_key_path(curr_val, key_path) ==
    IF key_path = <<>> THEN Some(curr_val)
    ELSE IF curr_val.k # "Map" THEN None
    ELSE IF Head(key_path) \notin DOMAIN curr_val.map THEN None
    ELSE get_key_path(curr_val.map[Head(key_path)], Tail(key_path))

\* BTreeMap::remove: the mapping left and the value removed, if any.
MapRemove(map, key) ==
    IF key \in DOMAIN map
    THEN [map |-> [x \in DOMAIN map \ {key} |-> map[x]], val |-> Some(map[key])]
    ELSE [map |-> map, val |-> None]

\* MetaVal::resolve_key_path: the for loop over the keys left.
RECURSIVE resolve_key_path(_, _)
resolve_key_path(curr_val, key_path) ==
    IF key_path = <<>> THEN Some(curr_val)
    ELSE IF curr_val.k # "Map" THEN None
    ELSE LET removed == MapRemove(curr_val.map, Head(key_path))
         IN  IF removed.val = None THEN None
             ELSE resolve_key_path(removed.val.val, Tail(key_path))

\* A value and a key path; neither function has been called.
KeyInit ==
    /\ kp_val \in KeyVals
    /\ kp_path \in SeqsUpTo(MetaKeys, MaxKeyPath)
    /\ kp_get = NoCall
    /\ kp_resolve = NoCall
    /\ PlexIdle /\ AggIdle /\ SelIdle /\ SortIdle /\ OpsIdle
    /\ StackIdle /\ ProcIdle
    /\ AdIdle /\ ArgIdle /\ OpndIdle

CallGetKeyPath ==
    /\ kp_get' = [fn |-> "get_key_path", ret |-> get_key_path(kp_val, kp_path)]
    /\ UNCHANGED <<kp_val, kp_path, kp_resolve>>
    /\ UNCHANGED <<plexvars, aggvars, selvars, sortvars, opsvars, stackvars,
                   procvars,
                   advars, argvars, opndvars>>

CallResolveKeyPath ==
    /\ kp_resolve' = [fn |-> "resolve_key_path",
                      ret |-> resolve_key_path(kp_val, kp_path)]
    /\ UNCHANGED <<kp_val, kp_path, kp_get>>
    /\ UNCHANGED <<plexvars, aggvars, selvars, sortvars, opsvars, stackvars,
                   procvars,
                   advars, argvars, opndvars>>

KeyNext ==
    \/ CallGetKeyPath
    \/ CallResolveKeyPath

SpecKey == KeyInit /\ [][KeyNext]_vars

\* ------------------------------------------------------ key paths: claims

\* The value reached from v along the keys ks, told from the last key: the
\* value reached along the keys before it must be a mapping that has it.
RECURSIVE ValueAt(_, _)
ValueAt(v, ks) ==
    IF ks = <<>> THEN Some(v)
    ELSE LET before == ValueAt(v, SubSeq(ks, 1, Len(ks) - 1))
             key == ks[Len(ks)]
         IN  IF before = None THEN None
             ELSE IF before.val.k # "Map" THEN None
             ELSE IF key \notin DOMAIN before.val.map THEN None
             ELSE Some(before.val.map[key])

\* C25: get_key_path gives the value itself on the empty key path, None when
\* a value on the way is no mapping or lacks the key, and the value reached
\* otherwise; resolve_key_path gives what get_key_path gives.
C25_KeyPathResolution ==
    /\ kp_get # NoCall =>
          /\ kp_path = <<>> => kp_get.ret = Some(kp_val)
          /\ kp_get.ret = ValueAt(kp_val, kp_path)
    /\ kp_resolve # NoCall => kp_resolve.ret = ValueAt(kp_val, kp_path)
    /\ (kp_get # NoCall /\ kp_resolve # NoCall) => kp_resolve.ret = kp_get.ret

\* Both functions have reached the value under two keys of a mapping of
\* mappings.
C25_Witness ==
    /\ Len(kp_path) = 2
    /\ kp_get # NoCall
    /\ kp_resolve # NoCall
    /\ kp_get.ret.t = "Some"
    /\ kp_get.ret.val = StrVal("val_a")
    /\ kp_resolve.ret = kp_get.ret

\* ------------------------------------ lib.rs, processor: an item's block

MaxLevels == 2

Fields == {"title", "artist"}

\* What the sidecar of the ancestor level i (1 is the root, the last is the
\* item's own) gives: no file, a file that cannot be read, a file that cannot
\* be parsed, or a block; the value of a field in it tells the level.
LevelsAt(i) ==
    {[st |-> "missing"], [st |-> "unreadable"], [st |-> "unparsable"]}
        \cup {[st |-> "ok", block |-> [f \in D |-> FieldVal(i)]] : D \in SUBSET Fields}
LevelSeqs ==
    UNION {{ls \in [1..n -> UNION {LevelsAt(i) : i \in 1..n}] :
               \A i \in 1..n : ls[i] \in LevelsAt(i)} : n \in 1..MaxLevels}

Failing(level) == level.st \in {"unreadable", "unparsable"}

\* The blocks of the levels merged from the root toward the item, a key of a
\* deeper level replacing the key of a level above.
RECURSIVE MergeLevels(_)
MergeLevels(ls) ==
    IF ls = <<>> THEN <<>>
    ELSE LET above == MergeLevels(SubSeq(ls, 1, Len(ls) - 1))
             last == ls[Len(ls)]
         IN  IF last.st # "ok" THEN above
             ELSE [f \in DOMAIN above \cup DOMAIN last.block |->
                      IF f \in DOMAIN last.block THEN last.block[f] ELSE above[f]]

\* Processor::process_item_file / MetaProcessor::process_item_file_flattened:
\* the flattened block, or the error of a sidecar that cannot be read or
\* parsed.
process_item_file(ls) ==
    IF \E i \in 1..Len(ls) : Failing(ls[i])
    THEN ResErr((CHOOSE i \in 1..Len(ls) :
                    Failing(ls[i]) /\ \A j \in (i + 1)..Len(ls) : ~Failing(ls[j])))
    ELSE ResOk(MergeLevels(ls))

ProcConfigs == {"default", "given"}

\* lib.rs get_with_config: process_item_file(..).unwrap()
get_with_config(ls, cfg) ==
    LET r == process_item_file(ls)
    IN  IF r.t = "Err" THEN Panic ELSE Plain(r.val)

\* lib.rs get
get(ls) == get_with_config(ls, "default")

\* A resolve_field that gives Nil for a field the block lacks.
resolve_field_nil_when_absent(ls, field) ==
    LET r == process_item_file(ls)
    IN  IF r.t = "Err" THEN ResErr([kind |-> "CannotProcessMetadata", cause |-> r.err])
        ELSE ResOk(IF field \in DOMAIN r.val THEN Some(r.val[field]) ELSE Some(Nil))

\* MetaAggregator::resolve_field on the item: map_err(CannotProcessMetadata)?,
\* then Ok(mb.remove(field)).
resolve_field_of_item(ls, field) ==
    LET r == process_item_file(ls)
    IN  IF r.t = "Err" THEN ResErr([kind |-> "CannotProcessMetadata", cause |-> r.err])
        ELSE ResOk(IF field \in DOMAIN r.val THEN Some(r.val[field]) ELSE None)

\* An item with the sidecars of its ancestor levels; no call has been made.
ProcInit ==
    /\ levels \in LevelSeqs
    /\ proc_call = NoCall
    /\ PlexIdle /\ AggIdle /\ SelIdle /\ SortIdle /\ OpsIdle
    /\ StackIdle /\ KeyIdle
    /\ AdIdle /\ ArgIdle /\ OpndIdle

Called(fn, arg, ret) ==
    /\ proc_call' = [fn |-> fn, arg |-> arg, ret |-> ret]
    /\ UNCHANGED levels
    /\ UNCHANGED <<plexvars, aggvars, selvars, sortvars, opsvars, stackvars,
                   keyvars,
                   advars, argvars, opndvars>>

CallGet ==
    /\ levels # <<>>
    /\ Called("get", "default", get(levels))

CallGetWithConfig ==
    /\ levels # <<>>
    /\ \E cfg \in ProcConfigs :
          Called("get_with_config", cfg, get_with_config(levels, cfg))

CallResolveField ==
    /\ levels # <<>>
    /\ \E field \in Fields :
          Called("resolve_field", field, resolve_field_of_item(levels, field))

ProcNext ==
    \/ CallGet
    \/ CallGetWithConfig
    \/ CallResolveField

SpecProc == ProcInit /\ [][ProcNext]_vars

\* -------------------------------------------- an item's block: claims

SomeFailing == \E i \in 1..Len(levels) : Failing(levels[i])
HasField(i, f) == levels[i].st = "ok" /\ f \in DOMAIN levels[i].block
\* The deepest level whose block has the field, 0 if none has.
DeepestWith(f) ==
    IF \E i \in 1..Len(levels) : HasField(i, f)
    THEN CHOOSE i \in 1..Len(levels) :
            HasField(i, f) /\ \A j \in (i + 1)..Len(levels) : ~HasField(j, f)
    ELSE 0

\* C26: when a sidecar of the item cannot be read or parsed, get and
\* get_with_config return one error value; they never panic.
C26_FailureIsAnErrorValue ==
    proc_call.fn \in {"get", "get_with_config"} =>
        /\ proc_call.ret # Panic
        /\ SomeFailing => proc_call.ret.t = "Err"

Satisfies(u_pred, i) ==
    stream[i].t = "Ok" /\ PredProcess(u_pred, stream[i].val) = ResOk(TRUE)
Fails(u_pred, i) ==
    stream[i].t = "Err" \/ PredProcess(u_pred, stream[i].val).t = "Err"
\* The error the i-th item gives.
ErrorAt(u_pred, i) ==
    IF stream[i].t = "Err" THEN stream[i] ELSE PredProcess(u_pred, stream[i].val)

\* C28: find returns the first item that satisfies the predicate and position
\* its index from zero; both return ItemNotFound when the stream ends without
\* error and no item satisfies it, and the error when an error item or a
\* failing evaluation of the predicate comes before any satisfying item.
C28_FindAndPosition ==
    stream_call.fn \in {"Find", "Position"} =>
        LET p == stream_call.arg[1]
            hit == StopAt(stream, LAMBDA i : Satisfies(p, i))
            bad == StopAt(stream, LAMBDA i : Fails(p, i))
            some_hit == \E i \in 1..Len(stream) : Satisfies(p, i)
            some_bad == \E i \in 1..Len(stream) : Fails(p, i)
        IN  /\ (some_hit /\ (some_bad => hit < bad))
                  => stream_call.ret = IF stream_call.fn = "Find" THEN stream[hit]
                                       ELSE ResOk(hit - 1)
            /\ (~some_hit /\ ~some_bad)
                  => stream_call.ret = ResErr("ItemNotFound")
            /\ (some_bad /\ (some_hit => bad < hit))
                  => stream_call.ret = ErrorAt(p, bad)

\* position has returned 1 for a stream whose second item is the first to
\* satisfy the predicate and whose third is an error.
C28_Witness ==
    /\ stream_call.fn = "Position"
    /\ stream_call.arg[1] = "is_one"
    /\ Len(stream) = 3
    /\ stream[1].t = "Ok"
    /\ stream[1].val # IntVal(1)
    /\ stream[2] = ResOk(IntVal(1))
    /\ stream[3].t = "Err"
    /\ stream_call.ret = ResOk(1)

\* C29: on a stream without error items and with a predicate that fails on
\* none of them, all returns whether every item satisfies the predicate and
\* any whether some item does; both pull the items up to the first that
\* decides the answer and none after it.
C29_AllAndAny ==
    (/\ stream_call.fn \in {"All", "Any"}
     /\ \A i \in 1..Len(stream) : ~Fails(stream_call.arg[1], i))
        => LET p == stream_call.arg[1]
           IN  IF stream_call.fn = "All"
               THEN /\ stream_call.ret
                          = ResOk(\A i \in 1..Len(stream) : Satisfies(p, i))
                    /\ stream_call.pulled
                          = StopAt(stream, LAMBDA i : ~Satisfies(p, i))
               ELSE /\ stream_call.ret
                          = ResOk(\E i \in 1..Len(stream) : Satisfies(p, i))
                    /\ stream_call.pulled
                          = StopAt(stream, LAMBDA i : Satisfies(p, i))

\* any has answered true after one item of a stream of three.
C29_Witness ==
    /\ stream_call.fn = "Any"
    /\ Len(stream) = 3
    /\ AllOk(stream)
    /\ \A i \in 1..3 : ~Fails(stream_call.arg[1], i)
    /\ stream_call.ret = ResOk(TRUE)
    /\ stream_call.pulled = 1

\* C30: all_s and any_s return a boolean for every sequence and every
\* predicate; they never panic.
C30_AllSAnySNeverPanic ==
    seq_call.fn \in {"All", "Any"} =>
        /\ seq_call.ret # Panic
        /\ seq_call.ret.t = "Plain"


\* ------------------------------------- aggregator: the walk and its end

ResolvedAt(p) == \E i \in 1..Len(events) : events[i] = <<"resolve", p>>
ListedAt(p) == \E i \in 1..Len(events) : events[i] = <<"list", p>>
InFrontier(p) == \E i \in 1..Len(frontier) : frontier[i] = p
YieldedAt(p) == \E i \in 1..Len(yielded) : yielded[i].path = p

\* Every path enters the frontier at most once and is popped at most once:
\* no path is twice in the frontier, none is in it once popped, and none is
\* resolved or listed twice.
OncePerPath ==
    /\ \A i, j \in 1..Len(frontier) : frontier[i] = frontier[j] => i = j
    /\ \A i \in 1..Len(frontier) :
          gen # "start" => ~ResolvedAt(frontier[i])
    /\ \A i, j \in 1..Len(events) : events[i] = events[j] => i = j

\* C37: on a finite tree the iterator of resolve_field_children_helper comes
\* to its end: consumed to the end it eventually returns None (with First the
\* consumer leaves it at the first pair); every path enters the frontier at
\* most once and is popped at most once.
C37_WalkTerminates ==
    /\ []OncePerPath
    /\ <>(gen = "done" \/ (agg_method = "First" /\ OkYields # <<>>))

\* C37 witness: the iterator of a tree of several levels was consumed to its
\* end, after at least two paths were popped.
C37_Witness ==
    /\ gen = "done" /\ agg_method = "Collect"
    /\ Cardinality({ n \in Nodes : ResolvedAt(n) }) >= 2
    /\ \E n \in Nodes : ResolvedAt(n) /\ Depth(n) >= 2

\* C38: with First, once the first pair is obtained no further path of the
\* frontier is processed: nothing is resolved and nothing is listed after
\* the path of that pair is resolved, the rest of the frontier is left as it
\* is, and the result is the value of that pair.
C38_FirstStopsAtFirstPair ==
    (agg_method = "First" /\ OkYields # <<>>) =>
        /\ Len(OkYields) = 1
        /\ yielded[Len(yielded)] = OkYields[1]
        /\ events[Len(events)] = <<"resolve", OkYields[1].path>>
        /\ \A i \in 1..Len(frontier) :
              ~ResolvedAt(frontier[i]) /\ ~ListedAt(frontier[i])
        /\ gen # "done"
        /\ result = [t |-> "Ok", val |-> OkYields[1].val]

\* C38 witness: First has its pair while the frontier still holds a path
\* whose block has the field too.
C38_Witness ==
    /\ agg_method = "First" /\ OkYields # <<>>
    /\ \E i \in 1..Len(frontier) : kind[frontier[i]] = "val"

\* C39: when the field of a path fails to resolve, an Err is yielded for the
\* path and its entries are not put in the frontier: nothing below it is
\* ever in the frontier, resolved, listed or yielded. The walk goes on: when
\* the generator is over every reachable path has been resolved.
C39_FailedPathIsNotDescended ==
    /\ \A p \in Nodes :
          (kind[p] = "err" /\ ResolvedAt(p)) =>
              /\ \E i \in 1..Len(yielded) :
                    yielded[i] = YieldErr("CannotProcessMetadata", p)
              /\ ~ListedAt(p)
              /\ \A d \in Nodes :
                    StrictDescendant(d, p) =>
                        /\ ~InFrontier(d)
                        /\ ~ResolvedAt(d) /\ ~ListedAt(d)
                        /\ ~YieldedAt(d)
    /\ gen = "done" => \A n \in Nodes : Reachable(n) => ResolvedAt(n)

\* C39 witness: the field of a directory with an entry failed to resolve,
\* and an entry that comes after the directory was resolved later.
C39_Witness ==
    \E i, j \in 1..Len(events) : \E d \in Nodes \ {ItemPath} :
        /\ i < j
        /\ events[i][1] = "resolve" /\ kind[events[i][2]] = "err"
        /\ parent[d] = events[i][2]
        /\ events[j][1] = "resolve"
        /\ parent[events[j][2]] = parent[events[i][2]]


\* ------------------------------------------------- producers: the adaptors

\* The values of the producers' items: numbers, an empty sequence, and a
\* sequence that holds a number and a sequence.
AdVals ==
    {IntVal(1), IntVal(2), SeqVal(<<>>),
     SeqVal(<<IntVal(1), SeqVal(<<IntVal(2)>>)>>)}
AdItems == {ResOk(v) : v \in AdVals} \cup {ResErr("Sentinel")}
\* The most items an adaptor's upstream iterator gives.
MaxUp == 4
AdStreams == SeqsUpTo(AdItems, MaxUp)
AdKinds == {"Flatten", "Dedup", "Unique", "Filter", "Map"}

\* Predicate::test and Converter::convert of the Filter and the Map at hand.
test(mv) == mv.k = "Int"
convert(mv) == SeqVal(<<mv>>)

\* What one call of next leaves and returns: the upstream items not pulled
\* yet, the adaptor's own field, and the Option returned.
AdRet(up, st, ret) == [up |-> up, st |-> st, ret |-> ret]
OkSeqOf(vs) == [i \in 1..Len(vs) |-> ResOk(vs[i])]

\* A Flatten whose queue unrolls the sequences it holds as well.
RECURSIVE Flatten_next_all_levels(_, _)
Flatten_next_all_levels(up, queue) ==
    IF queue # <<>>
    THEN IF Head(queue).k = "Seq"
         THEN Flatten_next_all_levels(up, Head(queue).vals \o Tail(queue))
         ELSE AdRet(up, Tail(queue), Some(ResOk(Head(queue))))
    ELSE IF up = <<>> THEN AdRet(up, queue, None)
    ELSE IF Head(up).t = "Ok" /\ Head(up).val.k = "Seq"
         THEN Flatten_next_all_levels(Tail(up), queue \o Head(up).val.vals)
         ELSE AdRet(Tail(up), queue, Some(Head(up)))

\* Flatten::next: the front of the queue if there is one; else the next
\* upstream item, a sequence going into the queue before next is tried again.
RECURSIVE Flatten_next(_, _)
Flatten_next(up, queue) ==
    IF queue # <<>> THEN AdRet(up, Tail(queue), Some(ResOk(Head(queue))))
    ELSE IF up = <<>> THEN AdRet(up, queue, None)
    ELSE IF Head(up).t = "Ok" /\ Head(up).val.k = "Seq"
         THEN Flatten_next(Tail(up), queue \o Head(up).val.vals)
         ELSE AdRet(Tail(up), queue, Some(Head(up)))

\* A Dedup that remembers the first value it emitted, and no later one.
RECURSIVE Dedup_next_keeps_first(_, _)
Dedup_next_keeps_first(up, last) ==
    IF up = <<>> THEN AdRet(up, last, None)
    ELSE IF Head(up).t = "Err" THEN AdRet(Tail(up), last, Some(Head(up)))
    ELSE IF last = Some(Head(up).val) THEN Dedup_next_keeps_first(Tail(up), last)
    ELSE AdRet(Tail(up), IF last = None THEN Some(Head(up).val) ELSE last,
               Some(Head(up)))

\* Dedup::next: upstream items are pulled until one is an Err or a value
\* other than the value emitted last, which it then becomes.
RECURSIVE Dedup_next(_, _)
Dedup_next(up, last) ==
    IF up = <<>> THEN AdRet(up, last, None)
    ELSE IF Head(up).t = "Err" THEN AdRet(Tail(up), last, Some(Head(up)))
    ELSE IF last = Some(Head(up).val) THEN Dedup_next(Tail(up), last)
    ELSE AdRet(Tail(up), Some(Head(up).val), Some(Head(up)))

\* A Unique whose history holds the last value only.
RECURSIVE Unique_next_adjacent(_, _)
Unique_next_adjacent(up, seen) ==
    IF up = <<>> THEN AdRet(up, seen, None)
    ELSE IF Head(up).t = "Err" THEN AdRet(Tail(up), seen, Some(Head(up)))
    ELSE IF Head(up).val \in seen THEN Unique_next_adjacent(Tail(up), seen)
    ELSE AdRet(Tail(up), {Head(up).val}, Some(Head(up)))

\* Unique::next: upstream items are pulled until one is an Err or a value not
\* in the history, which it then enters.
RECURSIVE Unique_next(_, _)
Unique_next(up, seen) ==
    IF up = <<>> THEN AdRet(up, seen, None)
    ELSE IF Head(up).t = "Err" THEN AdRet(Tail(up), seen, Some(Head(up)))
    ELSE IF Head(up).val \in seen THEN Unique_next(Tail(up), seen)
    ELSE AdRet(Tail(up), seen \cup {Head(up).val}, Some(Head(up)))

\* Filter::next: upstream items are pulled until one is an Err or a value the
\* predicate accepts.
RECURSIVE Filter_next(_, _)
Filter_next(up, pred) ==
    IF up = <<>> THEN AdRet(up, pred, None)
    ELSE IF Head(up).t = "Err" THEN AdRet(Tail(up), pred, Some(Head(up)))
    ELSE IF test(Head(up).val) THEN AdRet(Tail(up), pred, Some(Head(up)))
    ELSE Filter_next(Tail(up), pred)

\* A Map that ends at an upstream error.
Map_next_ends_on_err(up, conv) ==
    IF up = <<>> THEN AdRet(up, conv, None)
    ELSE IF Head(up).t = "Err" THEN AdRet(Tail(up), conv, None)
    ELSE AdRet(Tail(up), conv, Some(ResOk(convert(Head(up).val))))

\* Map::next: the next upstream item, a value converted, an Err as it is.
Map_next(up, conv) ==
    IF up = <<>> THEN AdRet(up, conv, None)
    ELSE IF Head(up).t = "Err" THEN AdRet(Tail(up), conv, Some(Head(up)))
    ELSE AdRet(Tail(up), conv, Some(ResOk(convert(Head(up).val))))

\* Flatten::new, Dedup::new, Unique::new, Filter::new, Map::new: the second
\* field of the adaptor.
AdNew(k) ==
    CASE k = "Flatten" -> <<>>
      [] k = "Dedup" -> None
      [] k = "Unique" -> {}
      [] k = "Filter" -> "test"
      [] k = "Map" -> "convert"

\* An adaptor built over an upstream iterator; next has not been called.
AdInit ==
    /\ ad_kind \in AdKinds
    /\ ad_in \in AdStreams
    /\ ad_up = ad_in
    /\ ad_st = AdNew(ad_kind)
    /\ ad_out = <<>>
    /\ PlexIdle /\ AggIdle /\ SelIdle /\ SortIdle /\ OpsIdle
    /\ StackIdle /\ KeyIdle /\ ProcIdle
    /\ ArgIdle /\ OpndIdle

AdEnded == ad_out # <<>> /\ ad_out[Len(ad_out)] = None

\* One call of next on the adaptor, until it has returned None.
AdCalled(r) ==
    /\ ~AdEnded
    /\ ad_up' = r.up
    /\ ad_st' = r.st
    /\ ad_out' = Append(ad_out, r.ret)
    /\ UNCHANGED <<ad_kind, ad_in>>
    /\ UNCHANGED <<plexvars, aggvars, selvars, sortvars, opsvars, stackvars,
                   keyvars, procvars, argvars, opndvars>>

FlattenNext == ad_kind = "Flatten" /\ AdCalled(Flatten_next(ad_up, ad_st))
DedupNext == ad_kind = "Dedup" /\ AdCalled(Dedup_next(ad_up, ad_st))
UniqueNext == ad_kind = "Unique" /\ AdCalled(Unique_next(ad_up, ad_st))
FilterNext == ad_kind = "Filter" /\ AdCalled(Filter_next(ad_up, ad_st))
MapperNext == ad_kind = "Map" /\ AdCalled(Map_next(ad_up, ad_st))

AdNext ==
    \/ FlattenNext
    \/ DedupNext
    \/ UniqueNext
    \/ FilterNext
    \/ MapperNext

SpecAd == AdInit /\ [][AdNext]_vars

\* ---------------------------------------------------- the adaptors: claims

\* The upstream items pulled so far, and the items emitted so far.
AdConsumed == SubSeq(ad_in, 1, Len(ad_in) - Len(ad_up))
IsSome(o) == o.t = "Some"
AdEmitted ==
    LET somes == SelectSeq(ad_out, IsSome)
    IN  [i \in 1..Len(somes) |-> somes[i].val]
IsOkItem(it) == it.t = "Ok"
IsErrItem(it) == it.t = "Err"
OkValsOf(its) ==
    LET oks == SelectSeq(its, IsOkItem)
    IN  [i \in 1..Len(oks) |-> oks[i].val]

\* The elements of s at the indexes Keep accepts, in order.
KeepIx(s, Keep(_)) ==
    LET F[i \in 0..Len(s)] ==
            IF i = 0 THEN <<>>
            ELSE IF Keep(i) THEN Append(F[i - 1], s[i]) ELSE F[i - 1]
    IN  F[Len(s)]

\* The items with every Ok(Seq(xs)) replaced by the elements of xs as Ok
\* items, one level only.
RECURSIVE OneLevel(_)
OneLevel(its) ==
    IF its = <<>> THEN <<>>
    ELSE (IF Head(its).t = "Ok" /\ Head(its).val.k = "Seq"
          THEN OkSeqOf(Head(its).val.vals)
          ELSE <<Head(its)>>) \o OneLevel(Tail(its))

\* C31: Flatten unrolls exactly one level: what it has emitted, followed by
\* what waits in its queue, is the pulled items with each Ok(Seq(xs))
\* replaced by the elements of xs as Ok items, in order: an empty sequence
\* gives nothing, a sequence inside xs is emitted as one value, every other
\* item is kept; at the end the whole input has been turned so.
C31_FlattenOneLevel ==
    ad_kind = "Flatten" =>
        /\ AdEmitted \o OkSeqOf(ad_st) = OneLevel(AdConsumed)
        /\ AdEnded => AdEmitted = OneLevel(ad_in)

\* C31 witness: a Flatten has ended whose input held an empty sequence and a
\* sequence with a sequence inside, which was emitted as a value.
C31_Witness ==
    /\ ad_kind = "Flatten" /\ AdEnded
    /\ \E i \in 1..Len(ad_in) : ad_in[i] = ResOk(SeqVal(<<>>))
    /\ \E i \in 1..Len(AdEmitted) : AdEmitted[i] = ResOk(SeqVal(<<IntVal(2)>>))
    /\ \E i \in 1..Len(ad_in) : ad_in[i] = ResOk(IntVal(2))

\* C32: Dedup removes adjacent duplicates: an Ok value is emitted exactly
\* when it differs from the Ok value emitted last, so the values emitted are
\* the first of each run of equal values pulled; no two values emitted in
\* succession are equal, and its field holds the value emitted last.
C32_DedupAdjacent ==
    ad_kind = "Dedup" =>
        LET vals == OkValsOf(AdConsumed)
            outs == OkValsOf(AdEmitted)
            FirstOfRun(i) == i = 1 \/ vals[i] # vals[i - 1]
        IN  /\ outs = KeepIx(vals, FirstOfRun)
            /\ \A i \in 1..(Len(outs) - 1) : outs[i] # outs[i + 1]
            /\ ad_st = IF outs = <<>> THEN None ELSE Some(outs[Len(outs)])

\* C32 witness: a Dedup has ended that dropped a value equal to the one
\* before it and emitted a value equal to one emitted earlier, not adjacent.
C32_Witness ==
    /\ ad_kind = "Dedup" /\ AdEnded
    /\ Len(OkValsOf(AdEmitted)) < Len(OkValsOf(ad_in))
    /\ \E i, j \in 1..Len(AdEmitted) :
          /\ i + 1 < j
          /\ AdEmitted[i].t = "Ok" /\ AdEmitted[i] = AdEmitted[j]

\* C33: Unique removes every repeat: the Ok values emitted so far are
\* pairwise distinct, every distinct Ok value pulled has been emitted
\* exactly once, and they come in the order of their first occurrence.
C33_UniqueFirstOccurrence ==
    ad_kind = "Unique" =>
        LET vals == OkValsOf(AdConsumed)
            outs == OkValsOf(AdEmitted)
            FirstOccurrence(i) == \A j \in 1..(i - 1) : vals[j] # vals[i]
        IN  /\ \A i, j \in 1..Len(outs) : outs[i] = outs[j] => i = j
            /\ { outs[i] : i \in 1..Len(outs) } = { vals[i] : i \in 1..Len(vals) }
            /\ outs = KeepIx(vals, FirstOccurrence)

\* C33 witness: a Unique has ended that dropped a value equal to one emitted
\* earlier with another value between them.
C33_Witness ==
    /\ ad_kind = "Unique" /\ AdEnded
    /\ \E i, j \in 1..Len(ad_in) :
          /\ i + 1 < j
          /\ ad_in[i].t = "Ok" /\ ad_in[i] = ad_in[j]
          /\ ad_in[i + 1].t = "Ok" /\ ad_in[i + 1] # ad_in[i]
    /\ Len(OkValsOf(AdEmitted)) = 2

\* C34: Flatten, Dedup, Unique, Filter and Map pass upstream errors through
\* and go on: every Err pulled is emitted once, unchanged, by the call that
\* pulled it, so the Err items emitted are the Err items pulled, in order;
\* the adaptor returns None only when upstream is at its end (and Flatten's
\* queue is empty), by when the whole input has been pulled.
C34_ErrorsPassThrough ==
    ad_kind \in AdKinds =>
        /\ SelectSeq(AdEmitted, IsErrItem) = SelectSeq(AdConsumed, IsErrItem)
        /\ (AdConsumed # <<>> /\ AdConsumed[Len(AdConsumed)].t = "Err" /\ ~AdEnded)
              => ad_out[Len(ad_out)] = Some(AdConsumed[Len(AdConsumed)])
        /\ AdEnded =>
              /\ ad_up = <<>>
              /\ ad_kind = "Flatten" => ad_st = <<>>
              /\ \A i \in 1..(Len(ad_out) - 1) : ad_out[i] # None

\* C34 witness: an adaptor has ended that emitted a value after an error.
C34_Witness ==
    /\ AdEnded
    /\ \E i, j \in 1..Len(AdEmitted) :
          i < j /\ AdEmitted[i].t = "Err" /\ AdEmitted[j].t = "Ok"
    /\ ad_in[1].t = "Ok"


\* ------------------------------------------------------ scripting: the Arg

\* The largest number in an Arg, as a usize and as an Int of either sign.
MaxArgInt == 3

ArgProducer(st) == [a |-> "Producer", items |-> st]
ArgValue(mv) == [a |-> "Value", val |-> mv]
ArgUsize(u) == [a |-> "Usize", u |-> u]
ArgPred1(pr) == [a |-> "Pred1", pred |-> pr]
ArgUnaryConv(cv) == [a |-> "UnaryConv", conv |-> cv]

\* The Args at hand: every kind, Ints of either sign, Values of other kinds.
Args ==
    {ArgUsize(u) : u \in 0..MaxArgInt}
        \cup {ArgValue(IntVal(i)) : i \in (0 - MaxArgInt)..MaxArgInt}
        \cup {ArgValue(v) : v \in {Nil, StrVal("s"), BulVal(TRUE), BulVal(FALSE),
                                   SeqVal(<<IntVal(1)>>)}}
        \cup {ArgProducer(<<ResOk(IntVal(1))>>)}
        \cup {ArgPred1(pr) : pr \in Preds}
        \cup {ArgUnaryConv("convert")}

\* TryFrom<Arg> for ValueProducer
producer_try_from(o) ==
    IF o.a = "Producer" THEN ResOk(o.items) ELSE ResErr("NotProducer")

\* A conversion to usize that takes a negative Int without its sign.
usize_try_from_unsigned(o) ==
    CASE o.a = "Usize" -> ResOk(o.u)
      [] o.a = "Value" /\ o.val.k = "Int" ->
            ResOk(IF o.val.n < 0 THEN 0 - o.val.n ELSE o.val.n)
      [] OTHER -> ResErr("NotUsize")

\* TryFrom<Arg> for usize; `i as usize` keeps an i that is not negative
\* where usize has the 64 bits of an Int.
usize_try_from(o) ==
    CASE o.a = "Usize" -> ResOk(o.u)
      [] o.a = "Value" /\ o.val.k = "Int" ->
            IF o.val.n < 0 THEN ResErr("NotUsize") ELSE ResOk(o.val.n)
      [] OTHER -> ResErr("NotUsize")

\* TryFrom<Arg> for bool
bool_try_from(o) ==
    IF o.a = "Value" /\ o.val.k = "Bul" THEN ResOk(o.val.b)
    ELSE ResErr("NotBoolean")

\* TryFrom<Arg> for Pred1
pred1_try_from(o) ==
    IF o.a = "Pred1" THEN ResOk(o.pred) ELSE ResErr("NotPredicate")

\* TryFrom<Arg> for UnaryConv
unary_conv_try_from(o) ==
    IF o.a = "UnaryConv" THEN ResOk(o.conv) ELSE ResErr("NotConverter")

\* An Arg popped from the stack; no conversion has been tried.
ArgInit ==
    /\ arg_in \in Args
    /\ arg_call = NoCall
    /\ PlexIdle /\ AggIdle /\ SelIdle /\ SortIdle /\ OpsIdle
    /\ StackIdle /\ KeyIdle /\ ProcIdle
    /\ AdIdle /\ OpndIdle

Converted(fn, ret) ==
    /\ arg_call' = [fn |-> fn, ret |-> ret]
    /\ UNCHANGED arg_in
    /\ UNCHANGED <<plexvars, aggvars, selvars, sortvars, opsvars, stackvars,
                   keyvars, procvars, advars, opndvars>>

ToProducer == Converted("ValueProducer", producer_try_from(arg_in))
ToUsize == Converted("usize", usize_try_from(arg_in))
ToBool == Converted("bool", bool_try_from(arg_in))
ToPred1 == Converted("Pred1", pred1_try_from(arg_in))
ToUnaryConv == Converted("UnaryConv", unary_conv_try_from(arg_in))

ArgNext ==
    \/ ToProducer
    \/ ToUsize
    \/ ToBool
    \/ ToPred1
    \/ ToUnaryConv

SpecArg == ArgInit /\ [][ArgNext]_vars

\* C35: the conversion of an Arg to usize gives Ok(u) for Arg::Usize(u) and
\* Ok(i) for Arg::Value(Int(i)) with i >= 0; it fails with NotUsize for
\* Arg::Value(Int(i)) with i < 0 and for every other Arg: the number it
\* gives is never one made from a negative Int.
C35_ArgToUsize ==
    arg_call.fn = "usize" =>
        /\ arg_in.a = "Usize" => arg_call.ret = ResOk(arg_in.u)
        /\ (arg_in.a = "Value" /\ arg_in.val.k = "Int" /\ arg_in.val.n >= 0)
              => arg_call.ret = ResOk(arg_in.val.n)
        /\ (arg_in.a = "Value" /\ arg_in.val.k = "Int" /\ arg_in.val.n < 0)
              => arg_call.ret = ResErr("NotUsize")
        /\ (arg_in.a = "Value" /\ arg_in.val.k # "Int")
              => arg_call.ret = ResErr("NotUsize")
        /\ arg_in.a \in {"Producer", "Pred1", "UnaryConv"}
              => arg_call.ret = ResErr("NotUsize")
        /\ arg_call.ret.t = "Ok" => arg_call.ret.val >= 0

\* C35 witness: a negative Int was refused as a usize.
C35_Witness ==
    /\ arg_call.fn = "usize"
    /\ arg_in.a = "Value" /\ arg_in.val.k = "Int" /\ arg_in.val.n < 0
    /\ arg_call.ret.t = "Err"


\* ------------------------------------------- functions: the IterableLike

\* The operands that are neither a stream nor a Value.
OtherOperands ==
    {[o |-> "Usize", u |-> 0], [o |-> "Usize", u |-> 1],
     [o |-> "Predicate", pred |-> "is_one"],
     [o |-> "Converter", conv |-> "convert"]}

\* The operands at hand: streams with and without errors, Values holding a
\* sequence, Values of the other kinds, and the other operands.
Operands ==
    {OperandStream(st) : st \in Streams}
        \cup {OperandValue(SeqVal(sq)) : sq \in SeqsUpTo(OpVals, MaxItems)}
        \cup {OperandValue(v) : v \in OpVals \cup {Nil, BulVal(TRUE)}}
        \cup OtherOperands

\* IterableLike::is_lazy, IterableLike::is_eager
is_lazy(il) == il.kind = "Stream"
is_eager(il) == ~is_lazy(il)

\* A conversion that hands every IterableLike on as a stream of its items.
OperandFromAsStream(il) == OperandStream(into_iter(il))

\* From<IterableLike> for Operand
OperandFrom(il) ==
    IF il.kind = "Stream" THEN OperandStream(il.items)
    ELSE OperandValue(SeqVal(il.vals))

\* An operand popped from the stack; no conversion has been tried.
OpndInit ==
    /\ opnd_in \in Operands
    /\ opnd_call = NoCall
    /\ PlexIdle /\ AggIdle /\ SelIdle /\ SortIdle /\ OpsIdle
    /\ StackIdle /\ KeyIdle /\ ProcIdle
    /\ AdIdle /\ ArgIdle

OpndCalled(fn, il, ret) ==
    /\ opnd_call' = [fn |-> fn, il |-> il, ret |-> ret]
    /\ UNCHANGED opnd_in
    /\ UNCHANGED <<plexvars, aggvars, selvars, sortvars, opsvars, stackvars,
                   keyvars, procvars, advars, argvars>>

\* IterableLike::try_from(operand)
OpndTryFrom ==
    LET r == IterableLikeFrom(opnd_in)
    IN  OpndCalled("try_from", r, r)

\* The IterableLike is made an Operand, and that an IterableLike again.
OpndRoundTrip ==
    LET r == IterableLikeFrom(opnd_in)
    IN  /\ r.t = "Ok"
        /\ OpndCalled("round_trip", r, IterableLikeFrom(OperandFrom(r.val)))

\* The IterableLike is iterated to its end.
OpndIterate ==
    LET r == IterableLikeFrom(opnd_in)
    IN  /\ r.t = "Ok"
        /\ OpndCalled("into_iter", r, into_iter(r.val))

OpndNext ==
    \/ OpndTryFrom
    \/ OpndRoundTrip
    \/ OpndIterate

SpecOpnd == OpndInit /\ [][OpndNext]_vars

\* C36: an Operand converts to an IterableLike exactly when it is a stream
\* (the lazy kind, with its items) or a Value holding a Sequence (the eager
\* kind, with its elements); every other operand, a Value of another kind
\* included, fails with NotIterable. An IterableLike made an Operand and an
\* IterableLike again has its kind and, for a sequence, its elements in
\* their order. Iterating the eager kind gives its elements, each as Ok.
C36_IterableLikeConversions ==
    /\ opnd_call.fn = "try_from" =>
          /\ opnd_call.ret.t = "Ok" <=>
                \/ opnd_in.o = "Stream"
                \/ (opnd_in.o = "Value" /\ opnd_in.val.k = "Seq")
          /\ opnd_call.ret.t # "Ok" => opnd_call.ret = ResErr("NotIterable")
          /\ opnd_in.o = "Stream" =>
                /\ is_lazy(opnd_call.ret.val)
                /\ opnd_call.ret.val.items = opnd_in.items
          /\ (opnd_in.o = "Value" /\ opnd_in.val.k = "Seq") =>
                /\ is_eager(opnd_call.ret.val)
                /\ opnd_call.ret.val.vals = opnd_in.val.vals
    /\ opnd_call.fn = "round_trip" =>
          /\ opnd_call.ret.t = "Ok"
          /\ is_lazy(opnd_call.ret.val) <=> is_lazy(opnd_call.il.val)
          /\ is_eager(opnd_call.il.val) =>
                opnd_call.ret.val.vals = opnd_call.il.val.vals
    /\ (opnd_call.fn = "into_iter" /\ is_eager(opnd_call.il.val)) =>
          /\ Len(opnd_call.ret) = Len(opnd_call.il.val.vals)
          /\ \A i \in 1..Len(opnd_call.ret) :
                opnd_call.ret[i] = ResOk(opnd_call.il.val.vals[i])

\* C36 witness: a sequence of two different values went to an Operand and
\* back to an IterableLike.
C36_Witness ==
    /\ opnd_call.fn = "round_trip"
    /\ opnd_in.o = "Value"
    /\ Len(opnd_call.ret.val.vals) >= 2
    /\ opnd_call.ret.val.vals[1] # opnd_call.ret.val.vals[2]

====
